---- MODULE Spec2Model ----
(***************************************************************************)
(* A model of the concurrent sorted doubly-linked list                     *)
(* (ConcurrentDoublyLinkedList.cpp) and of the per-node                    *)
(* Read/May-Write/Write lock it is built on (ReadMayWriteWriteLock.cpp).   *)
(*                                                                         *)
(* Granularity.  Every public method of the lock runs under the lock's     *)
(* internalMutex, so it is one atomic step, except that a thread blocked   *)
(* in condition_variable::wait gives the mutex up: a blocking call is an   *)
(* entry step (up to the wait) and a wake-up step (from the wait on).      *)
(* Reads of const fields and of fields of a node whose lock the thread     *)
(* holds are folded into the adjacent lock step of the same thread.  The   *)
(* pointer writes of a splice are steps of their own.                      *)
(***************************************************************************)
EXTENDS Integers, Sequences, FiniteSets, TLC

(***************************************************************************)
(* Bounds of the model.                                                    *)
(***************************************************************************)
NThreads      == 3   \* threads of the contended runs
PairThreads   == 2   \* threads of the wide runs
KeyBelow      == 1   \* keys of the wide runs: -KeyBelow..MaxKey
MaxKey        == 1
MaxData       == 2   \* data of the wide runs: 1..MaxData
NarrowMaxKey  == 1   \* keys of the contended runs: 0..NarrowMaxKey
NarrowMaxData == 1   \* data of the contended runs: 1..NarrowMaxData
SpreadMaxKey  == 2   \* keys of the spread runs: -KeyBelow..SpreadMaxKey

Threads     == 1..NThreads
Keys        == (0 - KeyBelow)..MaxKey
Datas       == 1..MaxData
NarrowKeys  == 0..NarrowMaxKey
NarrowDatas == 1..NarrowMaxData
SpreadKeys  == (0 - KeyBelow)..SpreadMaxKey
AllKeys     == Keys \cup NarrowKeys \cup SpreadKeys

(***************************************************************************)
(* Nodes are numbered; shared_ptr<Node> is a node number, nullptr is Null. *)
(***************************************************************************)
Null     == 0
head     == 1
tail     == 2
MaxNodes == 2 + Cardinality(AllKeys) + NThreads
Nodes    == 1..MaxNodes
SentinelKey  == 0
SentinelData == 0

NoThread == 0
NoCv     == 0
Unwritten == 0

VARIABLES
    key, data, prevPtr, nextPtr, isNodeActive,  \* Node fields
    nalloc,                                     \* nodes constructed so far
    lock,                                       \* Node::lock
    cvWait, notified,                           \* condition-variable waits
    pc, op, opKey, opData,                      \* the call a thread runs
    nullOut,                                    \* Search's data == nullptr
    list0,                                      \* the entries at the start
    arrival,                                    \* lock-only runs: the calls
                                                \* of a lock method, in order
    prev, next, del, result, outData,           \* its locals and outputs
    abs, lin,                                   \* the abstract map and the
                                                \* admissible outcomes
    hist,                                       \* per key, the mutating
                                                \* calls in order of effect
    solo, snap, after                           \* run-alone bookkeeping

nodeVars   == <<key, data, prevPtr, nextPtr, isNodeActive, nalloc>>
lockVars   == <<lock, cvWait, notified>>
localVars  == <<prev, next, del>>
callVars   == <<op, opKey, opData, nullOut, list0, arrival>>
ghostVars  == <<abs, lin, hist>>
aloneVars  == <<solo, snap, after>>
vars == <<key, data, prevPtr, nextPtr, isNodeActive, nalloc, lock, cvWait,
          notified, pc, op, opKey, opData, nullOut, list0, arrival, prev, next,
          del,
          result, outData, abs, lin, hist, solo, snap, after>>

(***************************************************************************)
(* Read_MayWrite_Write_Lock                                                *)
(***************************************************************************)
InitLock == [readersNumber     |-> 0,
             isWriterHolding   |-> FALSE,
             mayWriterThreadId |-> NoThread,
             threadQueue       |-> <<>>]

\* Variant: a lock that a writer holds does not turn callers away.  C32
\* depends on write mode keeping out every other thread.
CanReaderAcquireLockBesideWriter(L) == TRUE

CanReaderAcquireLock(L) == ~L.isWriterHolding

\* Variant: a may-writer is admitted beside another may-writer.  C14
\* depends on the test of mayWriterThreadId.
CanMayWriterAcquireLockShared(L) == CanReaderAcquireLock(L)

CanMayWriterAcquireLock(L) ==
    L.mayWriterThreadId = NoThread /\ CanReaderAcquireLock(L)

CanWriterAcquireLock(L) ==
    L.readersNumber = 0 /\ CanMayWriterAcquireLock(L)

CanAcquireLock(L, operation) ==
    CASE operation = "READ"      -> CanReaderAcquireLock(L)
      [] operation = "MAY_WRITE" -> CanMayWriterAcquireLock(L)
      [] operation = "WRITE"     -> CanWriterAcquireLock(L)

\* Variant: the tuple goes to the back of the queue also for an upgrade.
\* C15 depends on the place at the front.
InsertConditionTupleAtBack(q, c, operation, isVIP) ==
    Append(q, [cv |-> c, operation |-> operation, counter |-> 1])

InsertConditionTuple(q, c, operation, isVIP) ==
    LET conditionTuple == [cv |-> c, operation |-> operation, counter |-> 1]
    IN  IF isVIP THEN <<conditionTuple>> \o q ELSE Append(q, conditionTuple)

\* Variant: a caller that finds the lock free in its mode does not look at
\* the queue.  C16 depends on the look at the queue.
ShouldThreadWaitNoQueueTest(L, operation, c) ==
    IF CanAcquireLock(L, operation)
    THEN [wait |-> FALSE, queue |-> L.threadQueue]
    ELSE [wait  |-> TRUE,
          queue |-> InsertConditionTuple(L.threadQueue, c, operation, FALSE)]

\* Variant: a reader that waits always gets a tuple of its own.  C28
\* depends on the reader joining the READ tuple at the back.
ShouldThreadWaitNoCoalescing(L, operation, c) ==
    LET q == L.threadQueue
        n == Len(q)
        shouldThreadWait ==
            IF n = 0 THEN ~CanAcquireLock(L, operation)
            ELSE IF n = 1
                 THEN \/ operation # "READ"
                      \/ q[1].operation # "READ"
                      \/ ~CanAcquireLock(L, operation)
                 ELSE TRUE
    IN  IF shouldThreadWait
        THEN [wait  |-> TRUE,
              queue |-> InsertConditionTuple(q, c, operation, FALSE)]
        ELSE [wait |-> FALSE, queue |-> q]

\* [wait, queue]: whether the caller waits, and the queue after the call.
ShouldThreadWait(L, operation, c) ==
    LET q == L.threadQueue
        n == Len(q)
        shouldThreadWait ==
            IF n = 0 THEN ~CanAcquireLock(L, operation)
            ELSE IF n = 1
                 THEN \/ operation # "READ"
                      \/ q[1].operation # "READ"
                      \/ ~CanAcquireLock(L, operation)
                 ELSE TRUE
    IN  IF n >= 1 /\ operation = "READ" /\ shouldThreadWait
                  /\ q[n].operation = "READ"
        THEN [wait |-> TRUE, queue |-> [q EXCEPT ![n].counter = @ + 1]]
        ELSE IF shouldThreadWait
             THEN [wait  |-> TRUE,
                   queue |-> InsertConditionTuple(q, c, operation, FALSE)]
             ELSE [wait |-> FALSE, queue |-> q]

\* Variant: nobody is notified.  C17 depends on the notifications.
TryNotifyingNextNever(L) == NoCv

\* The condition variable TryNotifyingNext notifies, NoCv when none.
TryNotifyingNext(L) ==
    IF L.threadQueue # <<>>
       /\ CanAcquireLock(L, L.threadQueue[1].operation)
    THEN L.threadQueue[1].cv
    ELSE NoCv

\* What LockRead, LockMayWrite and LockWrite do after Wait returns.
\* Variant: LockMayWrite does not record the may-writer's id, so may-writers
\* are admitted side by side.  C30 depends on the may-writer being alone.
AcquiredNoMayWriterId(L, operation, t) ==
    CASE operation = "WRITE" ->
             [L EXCEPT !.isWriterHolding = TRUE]
      [] OTHER ->
             [L EXCEPT !.readersNumber = @ + 1]

Acquired(L, operation, t) ==
    CASE operation = "READ" ->
             [L EXCEPT !.readersNumber = @ + 1]
      [] operation = "MAY_WRITE" ->
             [L EXCEPT !.readersNumber = @ + 1, !.mayWriterThreadId = t]
      [] operation = "WRITE" ->
             [L EXCEPT !.isWriterHolding = TRUE]

\* Wait, up to its condition_variable::wait (or through, when no wait).
WaitEnter(L, operation, t, c) ==
    LET s == ShouldThreadWait(L, operation, c)
    IN  IF s.wait
        THEN [granted |-> FALSE,
              L       |-> [L EXCEPT !.threadQueue = s.queue],
              cv      |-> s.queue[Len(s.queue)].cv,
              notify  |-> NoCv]
        ELSE [granted |-> TRUE,
              L       |-> Acquired(L, operation, t),
              cv      |-> NoCv,
              notify  |-> NoCv]

\* Variant: a woken thread does not test that its tuple is at the front.
\* C18 depends on that test.
WaitDoneNoFrontTest(L, operation, c) ==
    L.threadQueue # <<>> /\ CanAcquireLock(L, operation)

\* The loop condition of Wait, negated: the woken thread goes on.
WaitDone(L, operation, c) ==
    /\ L.threadQueue # <<>>
    /\ L.threadQueue[1].cv = c
    /\ CanAcquireLock(L, operation)

\* Variant: the first reader let through pops the READ tuple, whatever its
\* counter.  C34 depends on the tuple staying until its last reader.
WaitLeavePopsAtOnce(L, operation, t) ==
    LET L1 == [L EXCEPT !.threadQueue = Tail(@)]
    IN  [granted |-> TRUE,
         L       |-> Acquired(L1, operation, t),
         cv      |-> NoCv,
         notify  |-> IF operation = "WRITE"
                     THEN NoCv ELSE TryNotifyingNext(L1)]

\* Wait, from the end of its loop on.
WaitLeave(L, operation, t) ==
    LET q       == L.threadQueue
        partial == operation = "READ" /\ q[1].counter - 1 # 0
        L1      == IF partial
                   THEN [L EXCEPT !.threadQueue[1].counter = @ - 1]
                   ELSE [L EXCEPT !.threadQueue = Tail(q)]
    IN  [granted |-> TRUE,
         L       |-> Acquired(L1, operation, t),
         cv      |-> NoCv,
         notify  |-> IF partial \/ operation = "WRITE"
                     THEN NoCv ELSE TryNotifyingNext(L1)]

\* Variant: UpgradeLock returns at once and leaves the lock in may-write
\* mode, so a splice runs with no node held in write mode.  C6 depends on
\* the splice being done under write locks.
UpgradeEnterNoWrite(L, t, c) ==
    [granted |-> TRUE, L |-> L, cv |-> NoCv, notify |-> NoCv]

\* UpgradeLock, up to its wait.
UpgradeEnter(L, t, c) ==
    LET L0 == [L EXCEPT !.readersNumber = @ - 1,
                        !.mayWriterThreadId = NoThread]
    IN  IF ~CanWriterAcquireLock(L0)
        THEN [granted |-> FALSE,
              L       |-> [L0 EXCEPT !.threadQueue =
                              InsertConditionTuple(@, c, "WRITE", TRUE)],
              cv      |-> c,
              notify  |-> NoCv]
        ELSE [granted |-> TRUE,
              L       |-> [L0 EXCEPT !.isWriterHolding = TRUE],
              cv      |-> NoCv,
              notify  |-> NoCv]

\* UpgradeLock, from the end of its loop on.
UpgradeLeave(L) ==
    [granted |-> TRUE,
     L       |-> [L EXCEPT !.threadQueue = Tail(@),
                           !.isWriterHolding = TRUE],
     cv      |-> NoCv,
     notify  |-> NoCv]

\* Variant: ReleaseSharedLock leaves mayWriterThreadId as it is.  C27
\* depends on the may-writer clearing it.
ReleaseSharedLockKeepsId(L, t) ==
    LET L0 == [L EXCEPT !.readersNumber = @ - 1]
    IN  [L |-> L0,
         notify |-> IF L0.readersNumber > 0 THEN NoCv
                    ELSE TryNotifyingNext(L0)]

ReleaseSharedLock(L, t) ==
    LET L0 == [L EXCEPT !.readersNumber = @ - 1]
    IN  IF L0.mayWriterThreadId = t
        THEN LET L1 == [L0 EXCEPT !.mayWriterThreadId = NoThread]
             IN  [L |-> L1, notify |-> TryNotifyingNext(L1)]
        ELSE IF L0.readersNumber > 0
             THEN [L |-> L0, notify |-> NoCv]
             ELSE [L |-> L0, notify |-> TryNotifyingNext(L0)]

\* Variant: the writer leaves without notifying the front of the queue.
\* C2 depends on the notification.
ReleaseExclusiveLockSilent(L) ==
    [L |-> [L EXCEPT !.isWriterHolding = FALSE], notify |-> NoCv]

ReleaseExclusiveLock(L) ==
    LET L0 == [L EXCEPT !.isWriterHolding = FALSE]
    IN  [L      |-> L0,
         notify |-> IF L0.threadQueue # <<>>
                    THEN L0.threadQueue[1].cv ELSE NoCv]

(***************************************************************************)
(* Condition variables: make_shared<condition_variable>() is the smallest  *)
(* number no queue entry and no waiting thread refers to.                  *)
(***************************************************************************)
UsedCvs ==
    {cvWait[t] : t \in DOMAIN cvWait}
    \cup UNION {{lock[n].threadQueue[i].cv :
                    i \in 1..Len(lock[n].threadQueue)} : n \in Nodes}

FreshCv == CHOOSE c \in 1..(Cardinality(DOMAIN cvWait) + 1) :
               /\ c \notin UsedCvs
               /\ \A b \in 1..(c - 1) : b \in UsedCvs

\* notify_all on condition variable c.
NotifyAll(c) ==
    [u \in DOMAIN notified |->
        notified[u] \/ (c # NoCv /\ cvWait[u] = c)]

Blocked(t) == cvWait[t] # NoCv

\* Thread t calls (or, blocked, goes on with) a blocking method on node n.
LockOutcome(t, n, operation) ==
    LET L == lock[n]
    IN  IF ~Blocked(t)
        THEN IF operation = "UPGRADE"
             THEN UpgradeEnter(L, t, FreshCv)
             ELSE WaitEnter(L, operation, t, FreshCv)
        ELSE IF operation = "UPGRADE"
             THEN IF CanWriterAcquireLock(L)
                  THEN UpgradeLeave(L)
                  ELSE [granted |-> FALSE, L |-> L, cv |-> cvWait[t],
                        notify |-> NoCv]
             ELSE IF WaitDone(L, operation, cvWait[t])
                  THEN WaitLeave(L, operation, t)
                  ELSE [granted |-> FALSE, L |-> L, cv |-> cvWait[t],
                        notify |-> NoCv]

\* A thread runs when it is not blocked or has been notified; a blocked
\* thread may also wake spuriously (sp), which shows only when its loop
\* condition lets it go on.
MayRun(t, n, operation, sp) ==
    IF ~Blocked(t) THEN ~sp
    ELSE IF sp THEN ~notified[t] /\ LockOutcome(t, n, operation).granted
    ELSE notified[t]

ApplyLock(t, n, r) ==
    /\ lock' = [lock EXCEPT ![n] = r.L]
    /\ cvWait' = [cvWait EXCEPT ![t] = r.cv]
    /\ notified' = [NotifyAll(r.notify) EXCEPT ![t] = FALSE]

ApplyRelease(n, r) ==
    /\ lock' = [lock EXCEPT ![n] = r.L]
    /\ notified' = NotifyAll(r.notify)
    /\ UNCHANGED cvWait

(***************************************************************************)
(* ConcurrentDoublyLinkedList: pure helpers                                *)
(***************************************************************************)
Inserts == {"InsertHead", "InsertTail"}
Ops     == {"InsertHead", "InsertTail", "Delete", "Search"}

\* Variant: FindKey walks past a node with the key itself.  C4 depends on
\* the walk stopping at it.
FindKeyLoopPastEqual(nx, k) == (key[nx] <= k /\ nx # tail) \/ nx = head

\* Variant: FindKey without || next == head, so that a Search for a key
\* that is not above head's stops at head.  C25 depends on that test.
FindKeyLoopNoHeadTest(nx, k) == key[nx] < k /\ nx # tail

\* The loop condition of FindKey.
FindKeyLoop(nx, k) == (key[nx] < k /\ nx # tail) \/ nx = head

\* Variant: the backward walk of InsertTail stops at a node a Delete has
\* unlinked since the walk read the pointer to it.  C1 depends on the walk
\* going past such a node.
InsertTailLoopNoActiveTest(p, k) == key[p] > k /\ p # head

\* Variant: the backward walk does not stop at head.  C22 depends on the
\* test prev != head.
InsertTailLoopPastHead(p, k) == key[p] > k \/ ~isNodeActive[p]

\* The loop condition of InsertTail's backward walk.
InsertTailLoop(p, k) == (key[p] > k /\ p # head) \/ ~isNodeActive[p]

\* Variant: InsertTail without its early return.  C8 depends on it.
InsertTailNoDuplicateTest(p, k) == FALSE

\* InsertTail's early return.
InsertTailDuplicate(p, k) == p # head /\ key[p] = k

\* Variants: an insert that never refuses (C7 depends on the comparison
\* with the key found) and a Delete that takes whatever node FindKey stops
\* at (C9 depends on it too).
InsertResultAlways(nx, k) == TRUE
DeleteResultAnyNode(nx, k) == nx # tail

\* bool result(...) of InsertFromPosition, Delete and Search.
InsertResult(nx, k) == key[nx] # k \/ nx = tail
DeleteResult(nx, k) == key[nx] = k /\ nx # tail
SearchResult(n, k)  == key[n] = k /\ isNodeActive[n] /\ n # tail

\* The nodes met following f from n until stop (at most fuel of them).
RECURSIVE WalkFrom(_, _, _, _)
WalkFrom(f, n, stop, fuel) ==
    IF n = Null \/ fuel = 0 THEN <<>>
    ELSE IF n = stop THEN <<n>>
    ELSE <<n>> \o WalkFrom(f, f[n], stop, fuel - 1)

NextWalk == WalkFrom(nextPtr, head, tail, MaxNodes + 1)
PrevWalk == WalkFrom(prevPtr, tail, head, MaxNodes + 1)

\* The internal nodes of the next-walk, and their (key, data) pairs.
Internal(w) == SelectSeq(w, LAMBDA n : n # head /\ n # tail)
Entries(w)  == [i \in 1..Len(Internal(w)) |->
                   <<key[Internal(w)[i]], data[Internal(w)[i]]>>]
ChainEntries == Entries(NextWalk)

Quiescent == \A t \in Threads : pc[t] \in {"idle", "done"}

RECURSIVE SetToSortedSeq(_)
SetToSortedSeq(S) ==
    IF S = {} THEN <<>>
    ELSE LET m == CHOOSE x \in S : \A y \in S : x <= y
         IN  <<m>> \o SetToSortedSeq(S \ {m})

(***************************************************************************)
(* The calls.  As in ThreadTask, every thread makes one call, whose        *)
(* operation, key and data are drawn before any thread runs.  The threads  *)
(* run the same code, so every run is, up to the numbering of the threads, *)
(* a run in which the calls are in ascending order.                        *)
(***************************************************************************)
Calls(K, D, N) ==
    {c \in [op : Ops, key : K, data : D \cup {Unwritten},
            null : N \cup {FALSE}] :
        /\ (c.op \in Inserts) <=> (c.data \in D)
        /\ c.null => c.op = "Search"}

OpIndex(o) ==
    CASE o = "InsertHead" -> 0 [] o = "InsertTail" -> 1
      [] o = "Delete" -> 2 [] o = "Search" -> 3

CallCode(c) ==
    (OpIndex(c.op) * (KeyBelow + MaxKey + NarrowMaxKey + 1)
        + (c.key + KeyBelow)) * (MaxData + NarrowMaxData + 1) + c.data

(***************************************************************************)
(* The initial states: the list the constructor builds, after any run of   *)
(* calls that left it holding the keys S (in ascending order, as the code  *)
(* keeps them) with data f and no call in flight; threads 1..n are about   *)
(* to make one call each, on keys K with data D; a Search may be passed a  *)
(* null out-pointer when N holds TRUE.                                     *)
(***************************************************************************)
InitWith(K, D, n, N) ==
    /\ \E S \in SUBSET K : \E f \in [S -> D] :
         LET ks == SetToSortedSeq(S)
             m  == Len(ks)
         IN  /\ key  = [i \in Nodes |->
                           IF i \in 3..(m + 2) THEN ks[i - 2]
                           ELSE SentinelKey]
             /\ data = [i \in Nodes |->
                           IF i \in 3..(m + 2) THEN f[ks[i - 2]]
                           ELSE SentinelData]
             /\ nextPtr = [i \in Nodes |->
                           IF i = head THEN (IF m = 0 THEN tail ELSE 3)
                           ELSE IF i \in 3..(m + 2)
                                THEN (IF i = m + 2 THEN tail ELSE i + 1)
                                ELSE Null]
             /\ prevPtr = [i \in Nodes |->
                           IF i = tail THEN (IF m = 0 THEN head ELSE m + 2)
                           ELSE IF i \in 3..(m + 2)
                                THEN (IF i = 3 THEN head ELSE i - 1)
                                ELSE Null]
             /\ isNodeActive = [i \in Nodes |-> i <= m + 2]
             /\ nalloc = m + 2
             /\ abs = [k \in AllKeys |->
                           IF k \in S THEN f[k] ELSE Unwritten]
             /\ list0 = [i \in 1..m |-> <<ks[i], f[ks[i]]>>]
    /\ \E c \in [1..n -> Calls(K, D, N)] :
         /\ \A i \in 1..(n - 1) : CallCode(c[i]) <= CallCode(c[i + 1])
         /\ op = [t \in Threads |-> IF t <= n THEN c[t].op ELSE "none"]
         /\ opKey = [t \in Threads |-> IF t <= n THEN c[t].key ELSE 0]
         /\ opData = [t \in Threads |->
                         IF t <= n THEN c[t].data ELSE Unwritten]
         /\ nullOut = [t \in Threads |-> t <= n /\ c[t].null]
    /\ lock = [i \in Nodes |-> InitLock]
    /\ cvWait = [t \in Threads |-> NoCv]
    /\ notified = [t \in Threads |-> FALSE]
    /\ pc = [t \in Threads |-> "idle"]
    /\ prev = [t \in Threads |-> Null]
    /\ next = [t \in Threads |-> Null]
    /\ del = [t \in Threads |-> Null]
    /\ result = [t \in Threads |-> FALSE]
    /\ outData = [t \in Threads |-> Unwritten]
    /\ lin = [t \in Threads |-> {}]
    /\ hist = [k \in AllKeys |-> <<>>]
    /\ arrival = <<>>
    /\ solo = [t \in Threads |-> FALSE]
    /\ snap = [t \in Threads |-> <<>>]
    /\ after = [t \in Threads |-> <<>>]

Init  == InitWith(Keys, Datas, PairThreads, {})
Init3 == InitWith(NarrowKeys, NarrowDatas, NThreads, {})
InitN == InitWith(NarrowKeys, NarrowDatas, PairThreads, {TRUE})
Init4 == InitWith(SpreadKeys, NarrowDatas, PairThreads, {})

(***************************************************************************)
(* Bookkeeping that no code reads.                                         *)
(*   abs  the map the list stands for, changed where a mutation takes      *)
(*        effect; lin[t] the outcomes a sequential map allows t's call;    *)
(*        hist[k] the threads whose InsertHead, InsertTail or Delete of k  *)
(*        has taken effect, in that order.                                 *)
(*   solo[t] t's last call began with no call in flight and no call has    *)
(*        begun since; snap[t] the chain when it began; after[t] the call  *)
(*        that ran alone right before it.                                  *)
(***************************************************************************)
Outcome(t) ==
    IF op[t] = "Search" THEN (IF result[t] THEN outData[t] ELSE 0)
    ELSE (IF result[t] THEN 1 ELSE 0)

\* t's mutation takes effect on the abstract map.
LinMutate(t) ==
    LET k       == opKey[t]
        present == abs[k] # Unwritten
        isIns   == op[t] \in Inserts
        newv    == IF isIns THEN (IF present THEN abs[k] ELSE opData[t])
                   ELSE Unwritten
        res     == IF isIns THEN (IF present THEN 0 ELSE 1)
                   ELSE (IF present THEN 1 ELSE 0)
    IN  /\ abs' = [abs EXCEPT ![k] = newv]
        /\ hist' = [hist EXCEPT ![k] = Append(@, t)]
        /\ lin' = [u \in Threads |->
                     IF u = t THEN {res}
                     ELSE IF pc[u] \notin {"idle", "done"}
                             /\ op[u] = "Search" /\ opKey[u] = k
                          THEN lin[u] \cup {newv}
                          ELSE lin[u]]

Return(t) ==
    /\ pc' = [pc EXCEPT ![t] = "done"]
    /\ prev' = [prev EXCEPT ![t] = Null]
    /\ next' = [next EXCEPT ![t] = Null]
    /\ UNCHANGED del

FirstPc(o) ==
    CASE o = "InsertHead" -> "IH_lock"
      [] o = "InsertTail" -> "IT_lockTail"
      [] o = "Delete"     -> "D_lock"
      [] o = "Search"     -> "S_lock"

\* A thread makes its call (the switch of ThreadTask).
Start(t) ==
    /\ pc[t] = "idle"
    /\ op[t] # "none"
    /\ pc' = [pc EXCEPT ![t] = FirstPc(op[t])]
    /\ lin' = [lin EXCEPT ![t] =
                 IF op[t] = "Search" THEN {abs[opKey[t]]} ELSE {}]
    /\ solo' = [u \in Threads |-> u = t /\ Quiescent]
    /\ snap' = [u \in Threads |->
                  IF u = t /\ Quiescent THEN ChainEntries ELSE <<>>]
    /\ after' = [u \in Threads |->
                  IF u = t /\ Quiescent /\ (\E v \in Threads : solo[v])
                  THEN LET v == CHOOSE v \in Threads : solo[v]
                       IN  <<op[v], opKey[v], opData[v], result[v]>>
                  ELSE <<>>]
    /\ UNCHANGED <<nodeVars, lockVars, localVars, callVars, result,
                   outData, abs, hist>>

(***************************************************************************)
(* FindKey and AdvanceAndLockReadMayWrite, may-write mode                  *)
(***************************************************************************)
\* Variant: InsertFromPosition splices whatever bool result(...) says.  C11
\* depends on the else branch being taken when the key is found.
AfterFindKeySplicesAnyway(t, nx) ==
    IF FindKeyLoop(nx, opKey[t]) THEN "FK_adv"
    ELSE IF op[t] = "Delete"
         THEN (IF DeleteResult(nx, opKey[t]) THEN "DEL_up1" ELSE "REL_s1")
         ELSE "INS_up1"

\* Where FindKey's caller goes on once the loop has ended.
AfterFindKey(t, nx) ==
    IF FindKeyLoop(nx, opKey[t]) THEN "FK_adv"
    ELSE IF op[t] = "Delete"
         THEN (IF DeleteResult(nx, opKey[t]) THEN "DEL_up1" ELSE "REL_s1")
         ELSE (IF InsertResult(nx, opKey[t]) THEN "INS_up1" ELSE "REL_s1")

\* Variant: the may-write walk of FindKey locks next in read mode.  C20
\* depends on the mode.
FK_lock_ReadMode(t, sp) ==
    /\ pc[t] = "FK_lock"
    /\ MayRun(t, next[t], "READ", sp)
    /\ LET r  == LockOutcome(t, next[t], "READ")
           to == AfterFindKey(t, next[t])
       IN  /\ ApplyLock(t, next[t], r)
           /\ IF r.granted
              THEN /\ pc' = [pc EXCEPT ![t] = to]
                   /\ result' = [result EXCEPT ![t] = (to \in {"DEL_up1", "INS_up1"})]
                   /\ IF to = "REL_s1" THEN LinMutate(t)
                      ELSE UNCHANGED ghostVars
              ELSE UNCHANGED <<pc, result, ghostVars>>
    /\ UNCHANGED <<nodeVars, localVars, callVars, outData, aloneVars>>

\* next->lock.LockMayWrite() of FindKey and of AdvanceAndLockReadMayWrite,
\* then the loop test and, out of the loop, the caller's bool result(...).
FK_lock(t, sp) ==
    /\ pc[t] = "FK_lock"
    /\ MayRun(t, next[t], "MAY_WRITE", sp)
    /\ LET r  == LockOutcome(t, next[t], "MAY_WRITE")
           to == AfterFindKey(t, next[t])
       IN  /\ ApplyLock(t, next[t], r)
           /\ IF r.granted
              THEN /\ pc' = [pc EXCEPT ![t] = to]
                   /\ result' = [result EXCEPT ![t] = (to \in {"DEL_up1", "INS_up1"})]
                   /\ IF to = "REL_s1" THEN LinMutate(t)
                      ELSE UNCHANGED ghostVars
              ELSE UNCHANGED <<pc, result, ghostVars>>
    /\ UNCHANGED <<nodeVars, localVars, callVars, outData, aloneVars>>

\* AdvanceAndLockReadMayWrite, isRead false, up to the LockMayWrite.
FK_adv(t) ==
    /\ pc[t] = "FK_adv"
    /\ ApplyRelease(prev[t], ReleaseSharedLock(lock[prev[t]], t))
    /\ prev' = [prev EXCEPT ![t] = next[t]]
    /\ next' = [next EXCEPT ![t] = nextPtr[next[t]]]
    /\ pc' = [pc EXCEPT ![t] = "FK_lock"]
    /\ UNCHANGED <<nodeVars, del, callVars, result, outData, ghostVars,
                   aloneVars>>

(***************************************************************************)
(* InsertHead, InsertFromPosition                                          *)
(***************************************************************************)
\* head->lock.LockMayWrite(); then FindKey's NodePtr prev, next.
IH_lock(t, sp) ==
    /\ pc[t] = "IH_lock"
    /\ MayRun(t, head, "MAY_WRITE", sp)
    /\ LET r == LockOutcome(t, head, "MAY_WRITE")
       IN  /\ ApplyLock(t, head, r)
           /\ IF r.granted
              THEN /\ pc' = [pc EXCEPT ![t] = "FK_lock"]
                   /\ prev' = [prev EXCEPT ![t] = head]
                   /\ next' = [next EXCEPT ![t] = nextPtr[head]]
              ELSE UNCHANGED <<pc, prev, next>>
    /\ UNCHANGED <<nodeVars, del, callVars, result, outData, ghostVars,
                   aloneVars>>

\* prev->lock.UpgradeLock() of InsertFromPosition.
INS_up1(t, sp) ==
    /\ pc[t] = "INS_up1"
    /\ MayRun(t, prev[t], "UPGRADE", sp)
    /\ LET r == LockOutcome(t, prev[t], "UPGRADE")
       IN  /\ ApplyLock(t, prev[t], r)
           /\ pc' = [pc EXCEPT ![t] = IF r.granted THEN "INS_up2" ELSE @]
    /\ UNCHANGED <<nodeVars, localVars, callVars, result, outData,
                   ghostVars, aloneVars>>

\* Variant: InsertFromPosition goes on to the splice without upgrading
\* next.  C23 depends on the upgrade.
INS_up2_Skipped(t, sp) ==
    /\ pc[t] = "INS_up2"
    /\ ~sp
    /\ pc' = [pc EXCEPT ![t] = "INS_w1"]
    /\ UNCHANGED <<nodeVars, lockVars, localVars, callVars, result, outData,
                   ghostVars, aloneVars>>

\* next->lock.UpgradeLock() of InsertFromPosition.
INS_up2(t, sp) ==
    /\ pc[t] = "INS_up2"
    /\ MayRun(t, next[t], "UPGRADE", sp)
    /\ LET r == LockOutcome(t, next[t], "UPGRADE")
       IN  /\ ApplyLock(t, next[t], r)
           /\ pc' = [pc EXCEPT ![t] = IF r.granted THEN "INS_w1" ELSE @]
    /\ UNCHANGED <<nodeVars, localVars, callVars, result, outData,
                   ghostVars, aloneVars>>

\* prev->nextPtr = make_shared<Node>(key, data, prev, next);
INS_w1(t) ==
    /\ pc[t] = "INS_w1"
    /\ LET new == nalloc + 1
       IN  /\ nalloc' = new
           /\ key' = [key EXCEPT ![new] = opKey[t]]
           /\ data' = [data EXCEPT ![new] = opData[t]]
           /\ prevPtr' = [prevPtr EXCEPT ![new] = prev[t]]
           /\ nextPtr' = [nextPtr EXCEPT ![new] = next[t], ![prev[t]] = new]
           /\ isNodeActive' = [isNodeActive EXCEPT ![new] = TRUE]
    /\ LinMutate(t)
    /\ pc' = [pc EXCEPT ![t] = "INS_w2"]
    /\ UNCHANGED <<lockVars, localVars, callVars, result, outData,
                   aloneVars>>

\* Variant: the splice of an insert without next->prevPtr = prev->nextPtr.
\* C3 depends on the second write.
INS_w2_NoBackLink(t) ==
    /\ pc[t] = "INS_w2"
    /\ ApplyRelease(prev[t], ReleaseExclusiveLock(lock[prev[t]]))
    /\ pc' = [pc EXCEPT ![t] = "INS_rel2"]
    /\ UNCHANGED <<nodeVars, localVars, callVars, result, outData,
                   ghostVars, aloneVars>>

\* next->prevPtr = prev->nextPtr; prev->lock.ReleaseExclusiveLock();
INS_w2(t) ==
    /\ pc[t] = "INS_w2"
    /\ prevPtr' = [prevPtr EXCEPT ![next[t]] = nextPtr[prev[t]]]
    /\ ApplyRelease(prev[t], ReleaseExclusiveLock(lock[prev[t]]))
    /\ pc' = [pc EXCEPT ![t] = "INS_rel2"]
    /\ UNCHANGED <<key, data, nextPtr, isNodeActive, nalloc, localVars,
                   callVars, result, outData, ghostVars, aloneVars>>

\* next->lock.ReleaseExclusiveLock(); return result;
INS_rel2(t) ==
    /\ pc[t] = "INS_rel2"
    /\ ApplyRelease(next[t], ReleaseExclusiveLock(lock[next[t]]))
    /\ Return(t)
    /\ UNCHANGED <<nodeVars, callVars, result, outData, ghostVars,
                   aloneVars>>

\* Variant: an insert that finds its key stores the new value in the node
\* found.  C26 depends on the else branch writing nothing.
REL_s1_Overwrites(t) ==
    /\ pc[t] = "REL_s1"
    /\ ApplyRelease(prev[t], ReleaseSharedLock(lock[prev[t]], t))
    /\ data' = [data EXCEPT ![next[t]] =
                   IF op[t] \in Inserts THEN opData[t] ELSE @]
    /\ pc' = [pc EXCEPT ![t] = "REL_s2"]
    /\ UNCHANGED <<key, prevPtr, nextPtr, isNodeActive, nalloc, localVars,
                   callVars, result, outData, ghostVars, aloneVars>>

\* prev->lock.ReleaseSharedLock() of the else branches of
\* InsertFromPosition and Delete.
REL_s1(t) ==
    /\ pc[t] = "REL_s1"
    /\ ApplyRelease(prev[t], ReleaseSharedLock(lock[prev[t]], t))
    /\ pc' = [pc EXCEPT ![t] = "REL_s2"]
    /\ UNCHANGED <<nodeVars, localVars, callVars, result, outData,
                   ghostVars, aloneVars>>

\* Variant: the call returns with next still held in may-write mode.  C33
\* depends on the release before the return.
REL_s2_Skipped(t) ==
    /\ pc[t] = "REL_s2"
    /\ Return(t)
    /\ UNCHANGED <<nodeVars, lockVars, callVars, result, outData, ghostVars,
                   aloneVars>>

\* next->lock.ReleaseSharedLock(); return result;
REL_s2(t) ==
    /\ pc[t] = "REL_s2"
    /\ ApplyRelease(next[t], ReleaseSharedLock(lock[next[t]], t))
    /\ Return(t)
    /\ UNCHANGED <<nodeVars, callVars, result, outData, ghostVars,
                   aloneVars>>

(***************************************************************************)
(* InsertTail                                                              *)
(***************************************************************************)
\* NodePtr next(tail); next->lock.LockRead();
IT_lockTail(t, sp) ==
    /\ pc[t] = "IT_lockTail"
    /\ MayRun(t, tail, "READ", sp)
    /\ LET r == LockOutcome(t, tail, "READ")
       IN  /\ ApplyLock(t, tail, r)
           /\ IF r.granted
              THEN /\ pc' = [pc EXCEPT ![t] = "IT_relTail"]
                   /\ next' = [next EXCEPT ![t] = tail]
              ELSE UNCHANGED <<pc, next>>
    /\ UNCHANGED <<nodeVars, prev, del, callVars, result, outData,
                   ghostVars, aloneVars>>

\* NodePtr prev(next->prevPtr); next->lock.ReleaseSharedLock();
IT_relTail(t) ==
    /\ pc[t] = "IT_relTail"
    /\ prev' = [prev EXCEPT ![t] = prevPtr[next[t]]]
    /\ ApplyRelease(next[t], ReleaseSharedLock(lock[next[t]], t))
    /\ pc' = [pc EXCEPT ![t] = "IT_lockPrev"]
    /\ UNCHANGED <<nodeVars, next, del, callVars, result, outData,
                   ghostVars, aloneVars>>

\* Where InsertTail goes on once it holds prev in may-write mode.
AfterLockPrev(t, p) ==
    IF InsertTailLoop(p, opKey[t]) THEN "IT_back"
    ELSE IF InsertTailDuplicate(p, opKey[t]) THEN "IT_dup"
    ELSE "FK_lock"

\* prev->lock.LockMayWrite(); then the loop test, the duplicate test and,
\* for the call of InsertFromPosition, FindKey's NodePtr next.
IT_lockPrev(t, sp) ==
    /\ pc[t] = "IT_lockPrev"
    /\ MayRun(t, prev[t], "MAY_WRITE", sp)
    /\ LET r  == LockOutcome(t, prev[t], "MAY_WRITE")
           to == AfterLockPrev(t, prev[t])
       IN  /\ ApplyLock(t, prev[t], r)
           /\ IF r.granted
              THEN /\ pc' = [pc EXCEPT ![t] = to]
                   /\ next' = [next EXCEPT ![t] =
                                 IF to = "FK_lock" THEN nextPtr[prev[t]]
                                 ELSE @]
                   /\ IF to = "IT_dup" THEN LinMutate(t)
                      ELSE UNCHANGED ghostVars
              ELSE UNCHANGED <<pc, next, ghostVars>>
    /\ UNCHANGED <<nodeVars, prev, del, callVars, result, outData,
                   aloneVars>>

\* Variant: the backward walk steps back without releasing the node it
\* leaves.  C21 depends on the release.
IT_back_KeepsLock(t) ==
    /\ pc[t] = "IT_back"
    /\ next' = [next EXCEPT ![t] = prev[t]]
    /\ prev' = [prev EXCEPT ![t] = prevPtr[prev[t]]]
    /\ pc' = [pc EXCEPT ![t] = "IT_lockPrev"]
    /\ UNCHANGED <<nodeVars, lockVars, del, callVars, result, outData,
                   ghostVars, aloneVars>>

\* next = prev; prev = next->prevPtr; next->lock.ReleaseSharedLock();
IT_back(t) ==
    /\ pc[t] = "IT_back"
    /\ next' = [next EXCEPT ![t] = prev[t]]
    /\ prev' = [prev EXCEPT ![t] = prevPtr[prev[t]]]
    /\ ApplyRelease(prev[t], ReleaseSharedLock(lock[prev[t]], t))
    /\ pc' = [pc EXCEPT ![t] = "IT_lockPrev"]
    /\ UNCHANGED <<nodeVars, del, callVars, result, outData, ghostVars,
                   aloneVars>>

\* prev->lock.ReleaseSharedLock(); return false;
IT_dup(t) ==
    /\ pc[t] = "IT_dup"
    /\ ApplyRelease(prev[t], ReleaseSharedLock(lock[prev[t]], t))
    /\ Return(t)
    /\ UNCHANGED <<nodeVars, callVars, result, outData, ghostVars,
                   aloneVars>>

(***************************************************************************)
(* Delete                                                                  *)
(***************************************************************************)
\* NodePtr prev(head); prev->lock.LockMayWrite(); then FindKey's next.
D_lock(t, sp) ==
    /\ pc[t] = "D_lock"
    /\ MayRun(t, head, "MAY_WRITE", sp)
    /\ LET r == LockOutcome(t, head, "MAY_WRITE")
       IN  /\ ApplyLock(t, head, r)
           /\ IF r.granted
              THEN /\ pc' = [pc EXCEPT ![t] = "FK_lock"]
                   /\ prev' = [prev EXCEPT ![t] = head]
                   /\ next' = [next EXCEPT ![t] = nextPtr[head]]
              ELSE UNCHANGED <<pc, prev, next>>
    /\ UNCHANGED <<nodeVars, del, callVars, result, outData, ghostVars,
                   aloneVars>>

\* prev->lock.UpgradeLock() of Delete.
DEL_up1(t, sp) ==
    /\ pc[t] = "DEL_up1"
    /\ MayRun(t, prev[t], "UPGRADE", sp)
    /\ LET r == LockOutcome(t, prev[t], "UPGRADE")
       IN  /\ ApplyLock(t, prev[t], r)
           /\ pc' = [pc EXCEPT ![t] = IF r.granted THEN "DEL_up2" ELSE @]
    /\ UNCHANGED <<nodeVars, localVars, callVars, result, outData,
                   ghostVars, aloneVars>>

\* Variant: Delete takes its victim without upgrading its lock, so that
\* it calls ReleaseExclusiveLock on a lock no writer holds.  C31 depends on
\* the upgrade.
DEL_up2_Skipped(t, sp) ==
    /\ pc[t] = "DEL_up2"
    /\ ~sp
    /\ pc' = [pc EXCEPT ![t] = "DEL_lw"]
    /\ del' = [del EXCEPT ![t] = next[t]]
    /\ next' = [next EXCEPT ![t] = nextPtr[next[t]]]
    /\ UNCHANGED <<nodeVars, lockVars, prev, callVars, result, outData,
                   ghostVars, aloneVars>>

\* next->lock.UpgradeLock(); NodePtr del(next); next = del->nextPtr;
DEL_up2(t, sp) ==
    /\ pc[t] = "DEL_up2"
    /\ MayRun(t, next[t], "UPGRADE", sp)
    /\ LET r == LockOutcome(t, next[t], "UPGRADE")
       IN  /\ ApplyLock(t, next[t], r)
           /\ IF r.granted
              THEN /\ pc' = [pc EXCEPT ![t] = "DEL_lw"]
                   /\ del' = [del EXCEPT ![t] = next[t]]
                   /\ next' = [next EXCEPT ![t] = nextPtr[next[t]]]
              ELSE UNCHANGED <<pc, del, next>>
    /\ UNCHANGED <<nodeVars, prev, callVars, result, outData, ghostVars,
                   aloneVars>>

\* Variant: Delete does not lock the node after its victim.  C24 depends
\* on that lock.
DEL_lw_Skipped(t, sp) ==
    /\ pc[t] = "DEL_lw"
    /\ ~sp
    /\ pc' = [pc EXCEPT ![t] = "DEL_w1"]
    /\ UNCHANGED <<nodeVars, lockVars, localVars, callVars, result, outData,
                   ghostVars, aloneVars>>

\* next->lock.LockWrite();
DEL_lw(t, sp) ==
    /\ pc[t] = "DEL_lw"
    /\ MayRun(t, next[t], "WRITE", sp)
    /\ LET r == LockOutcome(t, next[t], "WRITE")
       IN  /\ ApplyLock(t, next[t], r)
           /\ pc' = [pc EXCEPT ![t] = IF r.granted THEN "DEL_w1" ELSE @]
    /\ UNCHANGED <<nodeVars, localVars, callVars, result, outData,
                   ghostVars, aloneVars>>

\* Variant: Delete writes prev->nextPtr = del, which leaves the victim on
\* the chain.  C12 depends on the unlink.
DEL_w1_KeepsVictim(t) ==
    /\ pc[t] = "DEL_w1"
    /\ nextPtr' = [nextPtr EXCEPT ![prev[t]] = del[t]]
    /\ LinMutate(t)
    /\ pc' = [pc EXCEPT ![t] = "DEL_w2"]
    /\ UNCHANGED <<key, data, prevPtr, isNodeActive, nalloc, lockVars,
                   localVars, callVars, result, outData, aloneVars>>

\* prev->nextPtr = next;
DEL_w1(t) ==
    /\ pc[t] = "DEL_w1"
    /\ nextPtr' = [nextPtr EXCEPT ![prev[t]] = next[t]]
    /\ LinMutate(t)
    /\ pc' = [pc EXCEPT ![t] = "DEL_w2"]
    /\ UNCHANGED <<key, data, prevPtr, isNodeActive, nalloc, lockVars,
                   localVars, callVars, result, outData, aloneVars>>

\* next->prevPtr = prev;
DEL_w2(t) ==
    /\ pc[t] = "DEL_w2"
    /\ prevPtr' = [prevPtr EXCEPT ![next[t]] = prev[t]]
    /\ pc' = [pc EXCEPT ![t] = "DEL_w3"]
    /\ UNCHANGED <<key, data, nextPtr, isNodeActive, nalloc, lockVars,
                   localVars, callVars, result, outData, ghostVars,
                   aloneVars>>

\* Variant: Delete without del->isNodeActive = false.  C5 depends on it.
DEL_w3_StaysActive(t) ==
    /\ pc[t] = "DEL_w3"
    /\ ApplyRelease(prev[t], ReleaseExclusiveLock(lock[prev[t]]))
    /\ pc' = [pc EXCEPT ![t] = "DEL_rel2"]
    /\ UNCHANGED <<nodeVars, localVars, callVars, result, outData,
                   ghostVars, aloneVars>>

\* del->isNodeActive = false; prev->lock.ReleaseExclusiveLock();
DEL_w3(t) ==
    /\ pc[t] = "DEL_w3"
    /\ isNodeActive' = [isNodeActive EXCEPT ![del[t]] = FALSE]
    /\ ApplyRelease(prev[t], ReleaseExclusiveLock(lock[prev[t]]))
    /\ pc' = [pc EXCEPT ![t] = "DEL_rel2"]
    /\ UNCHANGED <<key, data, prevPtr, nextPtr, nalloc, localVars,
                   callVars, result, outData, ghostVars, aloneVars>>

\* del->lock.ReleaseExclusiveLock();
DEL_rel2(t) ==
    /\ pc[t] = "DEL_rel2"
    /\ ApplyRelease(del[t], ReleaseExclusiveLock(lock[del[t]]))
    /\ pc' = [pc EXCEPT ![t] = "DEL_rel3"]
    /\ UNCHANGED <<nodeVars, localVars, callVars, result, outData,
                   ghostVars, aloneVars>>

\* next->lock.ReleaseExclusiveLock(); return result;
DEL_rel3(t) ==
    /\ pc[t] = "DEL_rel3"
    /\ ApplyRelease(next[t], ReleaseExclusiveLock(lock[next[t]]))
    /\ Return(t)
    /\ UNCHANGED <<nodeVars, callVars, result, outData, ghostVars,
                   aloneVars>>

(***************************************************************************)
(* Search; FindKey and AdvanceAndLockReadMayWrite, read mode               *)
(***************************************************************************)
\* Variant: Search without its test of data.  C13 depends on the test.
S_lock_NoNullTest(t, sp) ==
    /\ pc[t] = "S_lock"
    /\ MayRun(t, head, "READ", sp)
    /\ LET r == LockOutcome(t, head, "READ")
       IN  /\ ApplyLock(t, head, r)
           /\ IF r.granted
              THEN /\ pc' = [pc EXCEPT ![t] =
                               IF FindKeyLoop(head, opKey[t])
                               THEN "S_adv" ELSE "S_fin"]
                   /\ prev' = [prev EXCEPT ![t] = head]
                   /\ next' = [next EXCEPT ![t] = head]
              ELSE UNCHANGED <<pc, prev, next>>
    /\ UNCHANGED <<nodeVars, del, callVars, result, outData, ghostVars,
                   aloneVars>>

\* if(data == nullptr) return false;
\* NodePtr prev(head); prev->lock.LockRead(); then FindKey's prev(position),
\* next(position) and its first loop test (next == head).
S_lock(t, sp) ==
    /\ pc[t] = "S_lock"
    /\ IF nullOut[t]
       THEN /\ ~sp
            /\ result' = [result EXCEPT ![t] = FALSE]
            /\ Return(t)
            /\ UNCHANGED lockVars
       ELSE /\ MayRun(t, head, "READ", sp)
            /\ LET r == LockOutcome(t, head, "READ")
               IN  /\ ApplyLock(t, head, r)
                   /\ IF r.granted
                      THEN /\ pc' = [pc EXCEPT ![t] =
                                       IF FindKeyLoop(head, opKey[t])
                                       THEN "S_adv" ELSE "S_fin"]
                           /\ prev' = [prev EXCEPT ![t] = head]
                           /\ next' = [next EXCEPT ![t] = head]
                      ELSE UNCHANGED <<pc, prev, next>>
            /\ UNCHANGED result
    /\ UNCHANGED <<nodeVars, del, callVars, outData, ghostVars, aloneVars>>

\* Variant: the read walk moves on without releasing the node it leaves.
\* C19 depends on the release.
S_adv_KeepsLock(t) ==
    /\ pc[t] = "S_adv"
    /\ prev' = [prev EXCEPT ![t] = next[t]]
    /\ next' = [next EXCEPT ![t] = nextPtr[next[t]]]
    /\ pc' = [pc EXCEPT ![t] = "S_lockNext"]
    /\ UNCHANGED <<nodeVars, lockVars, del, callVars, result, outData,
                   ghostVars, aloneVars>>

\* prev = next; next = prev->nextPtr; prev->lock.ReleaseSharedLock();
S_adv(t) ==
    /\ pc[t] = "S_adv"
    /\ prev' = [prev EXCEPT ![t] = next[t]]
    /\ next' = [next EXCEPT ![t] = nextPtr[next[t]]]
    /\ ApplyRelease(next[t], ReleaseSharedLock(lock[next[t]], t))
    /\ pc' = [pc EXCEPT ![t] = "S_lockNext"]
    /\ UNCHANGED <<nodeVars, del, callVars, result, outData, ghostVars,
                   aloneVars>>

\* next->lock.LockRead(); then the loop test.
S_lockNext(t, sp) ==
    /\ pc[t] = "S_lockNext"
    /\ MayRun(t, next[t], "READ", sp)
    /\ LET r == LockOutcome(t, next[t], "READ")
       IN  /\ ApplyLock(t, next[t], r)
           /\ pc' = [pc EXCEPT ![t] =
                       IF ~r.granted THEN @
                       ELSE IF FindKeyLoop(next[t], opKey[t])
                            THEN "S_adv" ELSE "S_fin"]
    /\ UNCHANGED <<nodeVars, localVars, callVars, result, outData,
                   ghostVars, aloneVars>>

\* Variant: Search writes *data whatever the result.  C10 depends on the
\* if(result).
S_fin_AlwaysWrites(t) ==
    /\ pc[t] = "S_fin"
    /\ LET node == next[t]
       IN  /\ result' = [result EXCEPT ![t] = SearchResult(node, opKey[t])]
           /\ outData' = [outData EXCEPT ![t] = data[node]]
           /\ ApplyRelease(node, ReleaseSharedLock(lock[node], t))
    /\ Return(t)
    /\ UNCHANGED <<nodeVars, callVars, ghostVars, aloneVars>>

\* bool result(...); if(result) *data = node->data;
\* node->lock.ReleaseSharedLock(); return result;
S_fin(t) ==
    /\ pc[t] = "S_fin"
    /\ LET node == next[t]
           res  == SearchResult(node, opKey[t])
       IN  /\ result' = [result EXCEPT ![t] = res]
           /\ outData' = [outData EXCEPT ![t] =
                            IF res THEN data[node] ELSE @]
           /\ ApplyRelease(node, ReleaseSharedLock(lock[node], t))
    /\ Return(t)
    /\ UNCHANGED <<nodeVars, callVars, ghostVars, aloneVars>>

(***************************************************************************)
(* The specification                                                       *)
(***************************************************************************)
\* A step of thread t that the code's own notifications allow.
Proceed(t) ==
    \/ Start(t)
    \/ IH_lock(t, FALSE) \/ D_lock(t, FALSE) \/ S_lock(t, FALSE)
    \/ IT_lockTail(t, FALSE) \/ IT_relTail(t) \/ IT_lockPrev(t, FALSE)
    \/ IT_back(t) \/ IT_dup(t)
    \/ FK_lock(t, FALSE) \/ FK_adv(t)
    \/ INS_up1(t, FALSE) \/ INS_up2(t, FALSE)
    \/ INS_w1(t) \/ INS_w2(t) \/ INS_rel2(t)
    \/ REL_s1(t) \/ REL_s2(t)
    \/ DEL_up1(t, FALSE) \/ DEL_up2(t, FALSE) \/ DEL_lw(t, FALSE)
    \/ DEL_w1(t) \/ DEL_w2(t) \/ DEL_w3(t) \/ DEL_rel2(t) \/ DEL_rel3(t)
    \/ S_adv(t) \/ S_lockNext(t, FALSE) \/ S_fin(t)

\* A blocked thread wakes with no notification and finds it may go on.  (A
\* spurious wake-up that finds the loop condition false waits again and
\* changes nothing.)  The code notifies the front of the queue at every
\* step that can make a waiter's loop condition true, so a waiter that may
\* go on has as a rule been notified already.
SpuriousWakeup(t) ==
    \/ IH_lock(t, TRUE) \/ D_lock(t, TRUE) \/ S_lock(t, TRUE)
    \/ IT_lockTail(t, TRUE) \/ IT_lockPrev(t, TRUE)
    \/ FK_lock(t, TRUE)
    \/ INS_up1(t, TRUE) \/ INS_up2(t, TRUE)
    \/ DEL_up1(t, TRUE) \/ DEL_up2(t, TRUE) \/ DEL_lw(t, TRUE)
    \/ S_lockNext(t, TRUE)

Next == \E t \in Threads : Proceed(t) \/ SpuriousWakeup(t)

\* Two threads, on the wide keys and data.
Spec == Init /\ [][Next]_vars

\* NThreads threads, on the narrow keys and data.
Spec3 == Init3 /\ [][Next]_vars

\* Two threads, on the narrow keys and data; a Search may be passed a null
\* out-pointer.
SpecN == InitN /\ [][Next]_vars

\* Two threads, on the spread keys and the narrow data: a list long enough
\* for two calls to work on node pairs with no node in common.
Spec4 == Init4 /\ [][Next]_vars

\* The same under a scheduler that does not stop every thread for ever:
\* while some thread can take a step the code's notifications allow, some
\* such step is eventually taken.  Every fair scheduler is one of these.
\* Spurious wake-ups are possible, never promised.
FairSpec == Spec3 /\ WF_vars(\E t \in Threads : Proceed(t))

(***************************************************************************)
(* One lock alone.  Each of n threads uses the lock of one node once, in   *)
(* one of the four ways the header allows: LockRead or LockMayWrite, then  *)
(* ReleaseSharedLock; LockMayWrite, UpgradeLock, then ReleaseExclusiveLock;*)
(* LockWrite, then ReleaseExclusiveLock.  The list is not touched.         *)
(***************************************************************************)
LockThreads     == 5   \* threads of the lock-only runs
FairLockThreads == 4   \* threads of the fair lock-only runs

LockNode  == head
LockModes == {"READ", "MAY_WRITE", "UPGRADE", "WRITE"}

\* The Operation a thread passes to Wait.
Operation(m) == IF m = "UPGRADE" THEN "MAY_WRITE" ELSE m

ModeCode(m) ==
    CASE m = "READ" -> 0 [] m = "MAY_WRITE" -> 1
      [] m = "UPGRADE" -> 2 [] m = "WRITE" -> 3

LockInitWith(n) ==
    /\ \E m \in [1..n -> LockModes] :
         /\ \A i \in 1..(n - 1) : ModeCode(m[i]) <= ModeCode(m[i + 1])
         /\ op = m
    /\ lock = [i \in Nodes |-> InitLock]
    /\ cvWait = [t \in 1..n |-> NoCv]
    /\ notified = [t \in 1..n |-> FALSE]
    /\ pc = [t \in 1..n |-> "acquire"]
    /\ arrival = <<>>
    /\ key = [i \in Nodes |-> SentinelKey]
    /\ data = [i \in Nodes |-> SentinelData]
    /\ nextPtr = [i \in Nodes |-> IF i = head THEN tail ELSE Null]
    /\ prevPtr = [i \in Nodes |-> IF i = tail THEN head ELSE Null]
    /\ isNodeActive = [i \in Nodes |-> i \in {head, tail}]
    /\ nalloc = 2
    /\ opKey = [t \in 1..n |-> 0]
    /\ opData = [t \in 1..n |-> Unwritten]
    /\ nullOut = [t \in 1..n |-> FALSE]
    /\ list0 = <<>>
    /\ prev = [t \in 1..n |-> Null]
    /\ next = [t \in 1..n |-> Null]
    /\ del = [t \in 1..n |-> Null]
    /\ result = [t \in 1..n |-> FALSE]
    /\ outData = [t \in 1..n |-> Unwritten]
    /\ abs = [k \in AllKeys |-> Unwritten]
    /\ lin = [t \in 1..n |-> {}]
    /\ hist = [k \in AllKeys |-> <<>>]
    /\ solo = [t \in 1..n |-> FALSE]
    /\ snap = [t \in 1..n |-> <<>>]
    /\ after = [t \in 1..n |-> <<>>]

LockInit     == LockInitWith(LockThreads)
FairLockInit == LockInitWith(FairLockThreads)

listVars == <<nodeVars, localVars, op, opKey, opData, nullOut, list0,
              result, outData, ghostVars, aloneVars>>

\* LockRead, LockMayWrite or LockWrite; arrival records the call and
\* whether the caller had to wait.  Threads that use the lock in the same
\* way are numbered in the order of their calls.
L_acquire(t, sp) ==
    /\ pc[t] = "acquire"
    /\ Blocked(t) \/ \A u \in 1..(t - 1) :
                        op[u] = op[t] => pc[u] # "acquire" \/ Blocked(u)
    /\ MayRun(t, LockNode, Operation(op[t]), sp)
    /\ LET r == LockOutcome(t, LockNode, Operation(op[t]))
       IN  /\ ApplyLock(t, LockNode, r)
           /\ pc' = IF ~r.granted THEN pc
                    ELSE [pc EXCEPT ![t] =
                            CASE op[t] = "UPGRADE" -> "upgrade"
                              [] op[t] = "WRITE"   -> "write"
                              [] OTHER             -> "held"]
           /\ arrival' = IF Blocked(t) THEN arrival
                         ELSE Append(arrival, [thread |-> t,
                                               method |-> "Lock",
                                               waited |-> ~r.granted])
    /\ UNCHANGED listVars

\* UpgradeLock, by the thread that holds the lock in may-write mode.
L_upgrade(t, sp) ==
    /\ pc[t] = "upgrade"
    /\ MayRun(t, LockNode, "UPGRADE", sp)
    /\ LET r == LockOutcome(t, LockNode, "UPGRADE")
       IN  /\ ApplyLock(t, LockNode, r)
           /\ pc' = IF r.granted THEN [pc EXCEPT ![t] = "write"] ELSE pc
           /\ arrival' = IF Blocked(t) THEN arrival
                         ELSE Append(arrival, [thread |-> t,
                                               method |-> "Upgrade",
                                               waited |-> ~r.granted])
    /\ UNCHANGED listVars

L_releaseShared(t) ==
    /\ pc[t] = "held"
    /\ ApplyRelease(LockNode, ReleaseSharedLock(lock[LockNode], t))
    /\ pc' = [pc EXCEPT ![t] = "done"]
    /\ UNCHANGED <<listVars, arrival>>

L_releaseExclusive(t) ==
    /\ pc[t] = "write"
    /\ ApplyRelease(LockNode, ReleaseExclusiveLock(lock[LockNode]))
    /\ pc' = [pc EXCEPT ![t] = "done"]
    /\ UNCHANGED <<listVars, arrival>>

\* A step of thread t that the lock's own notifications allow.
LockProceed(t) ==
    \/ L_acquire(t, FALSE) \/ L_upgrade(t, FALSE)
    \/ L_releaseShared(t) \/ L_releaseExclusive(t)

\* A blocked thread wakes with no notification and finds it may go on.
LockSpuriousWakeup(t) == L_acquire(t, TRUE) \/ L_upgrade(t, TRUE)

LockNext == \E t \in DOMAIN pc : LockProceed(t) \/ LockSpuriousWakeup(t)

\* Waits wake on a notification only.
NotifiedNext == \E t \in DOMAIN pc : LockProceed(t)

\* LockThreads threads on one lock; waits may wake spuriously.
LockSpec == LockInit /\ [][LockNext]_vars

\* FairLockThreads threads on one lock, waits wake on a notification only,
\* and while some thread can take a step, some step is eventually taken.
FairLockSpec == FairLockInit /\ [][NotifiedNext]_vars /\ WF_vars(NotifiedNext)

(***************************************************************************)
(* Definitions the properties share                                        *)
(***************************************************************************)
Last(w) == w[Len(w)]
Reverse(w) == [i \in 1..Len(w) |-> w[Len(w) + 1 - i]]
OnChain == {NextWalk[i] : i \in 1..Len(NextWalk)}
InFlight == {t \in Threads : pc[t] \notin {"idle", "done"}}
Returned(t) == pc[t] = "done"
Alone(t) == Returned(t) /\ solo[t]

\* head reaches tail by next, tail reaches head by prev through the same
\* nodes, and prev is the exact inverse of next along the chain.
ChainWellFormed ==
    /\ NextWalk # <<>> /\ Last(NextWalk) = tail
    /\ Cardinality(OnChain) = Len(NextWalk)
    /\ PrevWalk = Reverse(NextWalk)
    /\ prevPtr[head] = Null /\ nextPtr[tail] = Null
    /\ \A a \in OnChain : \A b \in OnChain :
           (nextPtr[a] = b) <=> (prevPtr[b] = a)

KeysStrictlyIncreasing(e) ==
    \A i \in 1..Len(e) : \A j \in 1..Len(e) : i < j => e[i][1] < e[j][1]

\* The abstract map as the chain that stands for it.
AbsEntries ==
    LET ks == SetToSortedSeq({k \in AllKeys : abs[k] # Unwritten})
    IN  [i \in 1..Len(ks) |-> <<ks[i], abs[ks[i]]>>]

\* A sequential sorted map on a chain e of (key, data) pairs.
HasKey(e, k) == \E i \in 1..Len(e) : e[i][1] = k
Lookup(e, k) == LET i == CHOOSE i \in 1..Len(e) : e[i][1] = k IN e[i][2]
Without(e, k) == SelectSeq(e, LAMBDA x : x[1] # k)
With(e, k, d) ==
    SelectSeq(e, LAMBDA x : x[1] < k) \o <<(<<k, d>>)>>
        \o SelectSeq(e, LAMBDA x : x[1] > k)

(***************************************************************************)
(* Properties                                                              *)
(***************************************************************************)

\* C1: every history is linearizable with respect to a sequential map
\* without duplicate keys.  A mutation takes effect at a step between its
\* invocation and its return (where its splice starts, or where it sees,
\* holding the pair in may-write mode, that there is nothing to do), and
\* returns what the map returns at that step; a Search returns (found,
\* value) as the map held them at some instant between its invocation and
\* its return; and the chain of a list with no call in flight is that map.
C1_Linearizable ==
    /\ \A t \in Threads : Returned(t) => Outcome(t) \in lin[t]
    /\ Quiescent => ChainEntries = AbsEntries

\* Two calls on one key overlapped: a Delete that removed the key and a
\* Search that still found it.
C1_Witness ==
    /\ Quiescent
    /\ \E t \in Threads : \E u \in Threads :
         /\ op[t] = "Delete" /\ result[t]
         /\ op[u] = "Search" /\ opKey[u] = opKey[t] /\ result[u]
         /\ ~solo[t] /\ ~solo[u]
         /\ abs[opKey[t]] = Unwritten

\* C2 (safety half): no reachable state is a deadlock: while calls are in
\* flight, one of them is not blocked or has been notified.
NoDeadlock ==
    InFlight = {} \/ \E t \in InFlight : ~Blocked(t) \/ notified[t]

\* C2: with NThreads threads each running one call on the same list, no
\* reachable state is a deadlock and, under a fair scheduler, every call
\* eventually returns.
C2_DeadlockFreeAndTerminates ==
    /\ []NoDeadlock
    /\ <>(\A t \in Threads : Returned(t))

\* A Delete waits in LockWrite for victim.next while it holds prev and the
\* victim in write mode.
C2_Witness ==
    \E t \in Threads : pc[t] = "DEL_lw" /\ Blocked(t)

\* C3: with no call in flight the chain is well formed.
C3_QuiescentChain == Quiescent => ChainWellFormed

\* Two overlapping calls, an insert and a delete, both changed the chain.
C3_Witness ==
    /\ Quiescent
    /\ \E t \in Threads : \E u \in Threads :
         /\ op[t] \in Inserts /\ result[t]
         /\ op[u] = "Delete" /\ result[u]
         /\ ~solo[t] /\ ~solo[u]

\* C4: in every state the next-walk from head reaches tail and the keys of
\* the internal nodes on it are strictly increasing.
C4_SortedAlways ==
    /\ NextWalk # <<>> /\ Last(NextWalk) = tail
    /\ KeysStrictlyIncreasing(ChainEntries)

\* In the middle of a splice of InsertTail, between two stored keys.
C4_Witness ==
    \E t \in Threads :
        /\ pc[t] = "INS_w2" /\ op[t] = "InsertTail"
        /\ prev[t] # head /\ next[t] # tail
        /\ \E u \in Threads : u # t /\ u \in InFlight

\* C5: with no call in flight every node on the chain is active, and the
\* node a successful Delete unlinked is inactive and off the chain (as is
\* every constructed node that is off the chain).
C5_ActiveIffOnChain ==
    Quiescent =>
        /\ \A n \in OnChain : isNodeActive[n]
        /\ \A n \in 1..nalloc : n \notin OnChain => ~isNodeActive[n]
        /\ \A t \in Threads :
               op[t] = "Delete" /\ result[t] =>
                   /\ del[t] \in 3..nalloc
                   /\ ~isNodeActive[del[t]]
                   /\ del[t] \notin OnChain

\* Two overlapping Deletes both unlinked a node.
C5_Witness ==
    /\ Quiescent
    /\ \E t \in Threads : \E u \in Threads :
         /\ op[t] = "Delete" /\ result[t] /\ ~solo[t]
         /\ op[u] = "Delete" /\ result[u] /\ ~solo[u]
         /\ del[t] # del[u]

\* C6: whenever no node on the chain is held in write mode, the chain is
\* well formed and every node on it is active.
NoWriterOnChain == \A n \in OnChain : ~lock[n].isWriterHolding

C6_WellFormedUnlessWriter ==
    NoWriterOnChain =>
        /\ ChainWellFormed
        /\ \A n \in OnChain : isNodeActive[n]

\* A Delete has just released its last write lock while another call holds
\* a node in read or may-write mode.
C6_Witness ==
    /\ NoWriterOnChain
    /\ \E t \in Threads : Returned(t) /\ op[t] = "Delete" /\ result[t]
    /\ \E n \in OnChain : lock[n].readersNumber > 0

\* C7: InsertHead(k, v) run alone returns true iff k is not on the chain;
\* then the chain is the old one with (k, v) at its sorted place, and a
\* Search(k) run alone right after it returns true with v.
C7_InsertHeadAlone ==
    \A t \in Threads :
        /\ Alone(t) /\ op[t] = "InsertHead" =>
               /\ result[t] <=> ~HasKey(snap[t], opKey[t])
               /\ result[t] =>
                      ChainEntries = With(snap[t], opKey[t], opData[t])
        /\ /\ Alone(t) /\ op[t] = "Search"
           /\ after[t] # <<>>
           /\ after[t][1] = "InsertHead" /\ after[t][2] = opKey[t]
           /\ after[t][4]
           => result[t] /\ outData[t] = after[t][3]

\* An InsertHead run alone put a key between two stored keys, and the
\* Search after it has returned.
C7_Witness ==
    \E t \in Threads :
        /\ Alone(t) /\ op[t] = "Search" /\ after[t] # <<>>
        /\ after[t][1] = "InsertHead" /\ after[t][2] = opKey[t]
        /\ after[t][4]
        /\ Len(ChainEntries) = 3 /\ ChainEntries[2][1] = opKey[t]

\* C8: run alone, InsertHead and InsertTail compute the same function of
\* the chain, the key and the value: the result is true iff the key is not
\* on the chain, and the chain afterwards is the old one with (k, v) at its
\* sorted place, or the old one unchanged.
C8_InsertTailAsInsertHead ==
    \A t \in Threads :
        Alone(t) /\ op[t] \in Inserts =>
            /\ result[t] <=> ~HasKey(snap[t], opKey[t])
            /\ ChainEntries =
                   IF HasKey(snap[t], opKey[t]) THEN snap[t]
                   ELSE With(snap[t], opKey[t], opData[t])

\* InsertTail run alone put a key between two stored keys.
C8_Witness ==
    \E t \in Threads :
        /\ Alone(t) /\ op[t] = "InsertTail" /\ result[t]
        /\ Len(snap[t]) = 2
        /\ snap[t][1][1] < opKey[t] /\ opKey[t] < snap[t][2][1]

\* C9: Delete(k) run alone returns true iff k is on the chain; then the
\* chain is the old one without k; and a Delete(k) run alone right after a
\* successful Delete(k) returns false.
C9_DeleteAlone ==
    \A t \in Threads :
        Alone(t) /\ op[t] = "Delete" =>
            /\ result[t] <=> HasKey(snap[t], opKey[t])
            /\ result[t] => ChainEntries = Without(snap[t], opKey[t])
            /\ /\ after[t] # <<>>
               /\ after[t][1] = "Delete" /\ after[t][2] = opKey[t]
               /\ after[t][4]
               => ~result[t]

\* The second of two Deletes of one key, each run alone, has returned.
C9_Witness ==
    \E t \in Threads :
        /\ Alone(t) /\ op[t] = "Delete" /\ after[t] # <<>>
        /\ after[t][1] = "Delete" /\ after[t][2] = opKey[t] /\ after[t][4]

\* C10: Search(k, &d) run alone returns true and writes the value stored
\* with k iff k is on the chain; otherwise it returns false and d is left
\* unwritten.
C10_SearchAlone ==
    \A t \in Threads :
        Alone(t) /\ op[t] = "Search" =>
            /\ result[t] <=> HasKey(snap[t], opKey[t])
            /\ result[t] => outData[t] = Lookup(snap[t], opKey[t])
            /\ ~result[t] => outData[t] = Unwritten

\* A Search run alone found the last of three keys.
C10_Witness ==
    \E t \in Threads :
        /\ Alone(t) /\ op[t] = "Search" /\ result[t]
        /\ Len(snap[t]) = 3 /\ snap[t][3][1] = opKey[t]
        /\ outData[t] = snap[t][3][2]

\* The successful inserts and Deletes of key k that have taken effect: the
\* call has written prev->nextPtr.
InsertedBy(k) ==
    {t \in Threads : /\ op[t] \in Inserts /\ opKey[t] = k /\ result[t]
                     /\ pc[t] \in {"INS_w2", "INS_rel2", "done"}}
DeletedBy(k) ==
    {t \in Threads : /\ op[t] = "Delete" /\ opKey[t] = k /\ result[t]
                     /\ pc[t] \in {"DEL_w2", "DEL_w3", "DEL_rel2",
                                    "DEL_rel3", "done"}}
AllReturned == \A t \in Threads : op[t] # "none" => Returned(t)

\* C11: in every state the successful inserts of a key k that have taken
\* effect (the key's entry at the start counting as one) are at most one
\* more than the successful Deletes of k that have taken effect, so two
\* successful inserts of k never occur without a successful Delete(k)
\* between them; and when the calls are inserts of one key that was absent
\* at the start and no call deletes it, exactly one of them returns true.
C11_NoDoubleInsert ==
    \A k \in AllKeys :
        /\ Cardinality(InsertedBy(k)) + (IF HasKey(list0, k) THEN 1 ELSE 0)
               <= Cardinality(DeletedBy(k)) + 1
        /\ /\ AllReturned
           /\ ~HasKey(list0, k)
           /\ \E t \in Threads : op[t] \in Inserts /\ opKey[t] = k
           /\ \A t \in Threads : op[t] = "Delete" => opKey[t] # k
           => Cardinality({t \in Threads : /\ op[t] \in Inserts
                                           /\ opKey[t] = k
                                           /\ result[t]}) = 1

\* Every thread inserted the same absent key, InsertHead and InsertTail
\* both among them, the last to begin beginning while another was in
\* flight.
C11_Witness ==
    /\ \A t \in Threads : Returned(t) /\ op[t] \in Inserts /\ ~solo[t]
    /\ \A t \in Threads : opKey[t] = opKey[1] /\ ~HasKey(list0, opKey[t])
    /\ \E t \in Threads : \E u \in Threads :
         op[t] = "InsertHead" /\ op[u] = "InsertTail"

\* One sequential map entry (Unwritten: no entry) after the call of t.
ApplyCall(v, t) ==
    IF op[t] \in Inserts THEN (IF v = Unwritten THEN opData[t] ELSE v)
    ELSE Unwritten

RECURSIVE FoldCalls(_, _)
FoldCalls(v, h) ==
    IF h = <<>> THEN v ELSE FoldCalls(ApplyCall(v, h[1]), Tail(h))

\* What key k holds once the calls of hist[k] have been applied, in that
\* order, to what it held at the start.
FinalValue(k) ==
    FoldCalls(IF HasKey(list0, k) THEN Lookup(list0, k) ELSE Unwritten,
              hist[k])

MutatorsOf(k) ==
    {t \in Threads : op[t] \in Inserts \cup {"Delete"} /\ opKey[t] = k}

\* C12: once every call has returned, the live entries are a function of
\* the entries at the start (none, in particular) and, for every key, of
\* the order in which the inserts and Deletes of that key took effect: the
\* entry of k is what that order leaves of it.  The order of calls on
\* different keys and the Search calls have no part in it.
C12_PerKeyOrderDecides ==
    AllReturned =>
        \A k \in AllKeys :
            /\ Len(hist[k]) = Cardinality(MutatorsOf(k))
            /\ {hist[k][i] : i \in 1..Len(hist[k])} = MutatorsOf(k)
            /\ HasKey(ChainEntries, k) <=> FinalValue(k) # Unwritten
            /\ HasKey(ChainEntries, k) =>
                   Lookup(ChainEntries, k) = FinalValue(k)

\* On a list empty at the start, an insert and a Delete of one key both
\* succeeded while a call on another key changed the list too.
C12_Witness ==
    /\ AllReturned /\ list0 = <<>>
    /\ \E t \in Threads : \E u \in Threads : \E v \in Threads :
         /\ op[t] \in Inserts /\ result[t]
         /\ op[u] = "Delete" /\ result[u] /\ opKey[u] = opKey[t]
         /\ op[v] \in Inserts /\ result[v] /\ opKey[v] # opKey[t]
         /\ ~solo[t] /\ ~solo[u] /\ ~solo[v]

\* C13: Search(k, nullptr) returns false, whatever the key and the list,
\* and no step of the call changes a node, a lock or a wait.
C13_NullSearch ==
    /\ [](\A t \in Threads :
            nullOut[t] /\ Returned(t) =>
                ~result[t] /\ outData[t] = Unwritten)
    /\ [][\A t \in Threads :
            nullOut[t] /\ pc'[t] # pc[t] =>
                UNCHANGED <<nodeVars, lockVars>>]_vars

\* A Search with a null out-pointer has returned for a key that is on the
\* chain, while another call holds a node's lock.
C13_Witness ==
    \E t \in Threads :
        /\ nullOut[t] /\ Returned(t)
        /\ HasKey(ChainEntries, opKey[t])
        /\ \E n \in OnChain : lock[n].readersNumber > 0

\* The nodes whose lock thread t holds in shared (read or may-write) mode,
\* by the statements its call has run: a lock call counts once it has
\* returned, ReleaseSharedLock once it has been called, and UpgradeLock
\* gives the shared hold up when it is called.
SharedHeld(t) ==
    CASE pc[t] \in {"IT_relTail", "S_adv", "S_fin", "REL_s2"} -> {next[t]}
      [] pc[t] \in {"IT_back", "IT_dup", "FK_lock"} -> {prev[t]}
      [] pc[t] \in {"FK_adv", "REL_s1"} -> {prev[t], next[t]}
      [] pc[t] \in {"INS_up1", "DEL_up1"} ->
             IF Blocked(t) THEN {next[t]} ELSE {prev[t], next[t]}
      [] pc[t] \in {"INS_up2", "DEL_up2"} ->
             IF Blocked(t) THEN {} ELSE {next[t]}
      [] OTHER -> {}

\* C19, as the code has it: in read mode the walk releases the node it is
\* on and then locks the next one.  Every lock's readersNumber is the
\* number of threads that hold it in shared mode, where a Search holds the
\* node it is on and, between the release and LockRead on the next node,
\* no node at all: a Search holds at most one node lock at every instant.
C19_SearchReleasesThenLocks ==
    \A n \in Nodes :
        lock[n].readersNumber =
            Cardinality({t \in Threads : n \in SharedHeld(t)})

\* A Search has released the node it was on and waits for the next one,
\* which a Delete holds in write mode.
C19_Witness ==
    \E t \in Threads :
        /\ op[t] = "Search" /\ pc[t] = "S_lockNext" /\ Blocked(t)
        /\ lock[next[t]].isWriterHolding
        /\ lock[prev[t]].readersNumber = 0

\* C19 as claimed: from locking head until it returns, a Search holds a
\* node lock at every instant, so some lock counts a reader.
C19_AlwaysHoldsALock ==
    \A t \in Threads :
        op[t] = "Search" /\ pc[t] \in {"S_adv", "S_lockNext", "S_fin"} =>
            \E n \in Nodes : lock[n].readersNumber > 0

\* FindKey in may-write mode has returned to thread t, which has not gone
\* on to UpgradeLock or ReleaseSharedLock.
FindKeyReturned(t) ==
    pc[t] \in {"INS_up1", "DEL_up1", "REL_s1"} /\ ~Blocked(t)

\* C20: when FindKey(position, key) returns candidate c to InsertHead,
\* InsertTail or Delete, the thread holds both nodes in may-write mode, the
\* two are adjacent and active, position is head or has a smaller key and
\* c is tail or has a key that is not smaller; and the pair stays adjacent
\* until the thread splices or releases.
C20_FindKeyPair ==
    \A t \in Threads :
        /\ FindKeyReturned(t) =>
              /\ lock[prev[t]].mayWriterThreadId = t
              /\ lock[next[t]].mayWriterThreadId = t
              /\ lock[prev[t]].readersNumber > 0
              /\ lock[next[t]].readersNumber > 0
              /\ ~lock[prev[t]].isWriterHolding
              /\ ~lock[next[t]].isWriterHolding
              /\ isNodeActive[prev[t]] /\ isNodeActive[next[t]]
              /\ prev[t] = head \/ (prev[t] # tail /\ key[prev[t]] < opKey[t])
              /\ next[t] = tail \/ (next[t] # head /\ key[next[t]] >= opKey[t])
        /\ pc[t] \in {"INS_up1", "INS_up2", "INS_w1", "DEL_up1", "DEL_up2",
                       "REL_s1"} =>
              nextPtr[prev[t]] = next[t] /\ prevPtr[next[t]] = prev[t]
        /\ pc[t] \in {"DEL_lw", "DEL_w1"} =>
              nextPtr[prev[t]] = del[t] /\ prevPtr[del[t]] = prev[t]

\* FindKey has returned a pair of stored nodes to a call that began from
\* the tail or walked past a node, while another thread holds one of the
\* two in read mode.
C20_Witness ==
    \E t \in Threads :
        /\ FindKeyReturned(t)
        /\ prev[t] # head /\ next[t] # tail
        /\ lock[next[t]].readersNumber > 1

(***************************************************************************)
(* One lock alone: who holds it, who waits, who came first                 *)
(***************************************************************************)
Users == DOMAIN pc

\* In Wait, called by LockRead, LockMayWrite or LockWrite.
Waiting(t) == pc[t] = "acquire" /\ Blocked(t)

\* In the wait of UpgradeLock.
UpgradePending(t) == pc[t] = "upgrade" /\ Blocked(t)

HoldsRead(t)     == pc[t] = "held" /\ op[t] = "READ"
HoldsMayWrite(t) == \/ pc[t] = "held" /\ op[t] = "MAY_WRITE"
                    \/ pc[t] = "upgrade" /\ ~Blocked(t)
HoldsWrite(t)    == pc[t] = "write"

\* The call of method f by thread t has place i in the order of arrival.
IsCall(i, t, f) == arrival[i].thread = t /\ arrival[i].method = f

\* The place of t's LockRead, LockMayWrite or LockWrite in the order of
\* arrival, 0 before the call.
Place(t) ==
    IF \E i \in 1..Len(arrival) : IsCall(i, t, "Lock")
    THEN CHOOSE i \in 1..Len(arrival) : IsCall(i, t, "Lock")
    ELSE 0

ArrivedBefore(u, t) == Place(u) > 0 /\ (Place(t) = 0 \/ Place(u) < Place(t))

\* This step returns t from LockRead, LockMayWrite or LockWrite.
AdmittedNow(t) == pc[t] = "acquire" /\ pc'[t] # "acquire"

\* C14: the compatibility matrix.  At most one thread holds the lock in
\* write mode and at most one in may-write mode; while one holds it in
\* write mode nobody else holds it in any mode; isWriterHolding and a set
\* mayWriterThreadId never go together, isWriterHolding implies
\* readersNumber = 0, and the three fields say who holds the lock.
C14_CompatibilityMatrix ==
    LET L == lock[LockNode]
    IN  /\ Cardinality({t \in Users : HoldsWrite(t)}) <= 1
        /\ Cardinality({t \in Users : HoldsMayWrite(t)}) <= 1
        /\ \A t \in Users : HoldsWrite(t) =>
               \A u \in Users \ {t} :
                   ~HoldsRead(u) /\ ~HoldsMayWrite(u) /\ ~HoldsWrite(u)
        /\ ~(L.isWriterHolding /\ L.mayWriterThreadId # NoThread)
        /\ L.isWriterHolding => L.readersNumber = 0
        /\ L.isWriterHolding <=> \E t \in Users : HoldsWrite(t)
        /\ \A t \in Users : L.mayWriterThreadId = t <=> HoldsMayWrite(t)
        /\ L.readersNumber =
               Cardinality({t \in Users : HoldsRead(t) \/ HoldsMayWrite(t)})

\* Two readers and a may-writer hold the lock together while a writer
\* waits.
C14_Witness ==
    \E r1, r2, m, w \in Users :
        /\ r1 # r2 /\ HoldsRead(r1) /\ HoldsRead(r2) /\ HoldsMayWrite(m)
        /\ op[w] = "WRITE" /\ Waiting(w)

\* C15: from the call of UpgradeLock until the upgraded writer releases,
\* no other thread is admitted in any mode: the upgrade gets write mode
\* before every queued writer and may-writer, and readers that come while
\* it is pending wait until the upgraded writer has released.
C15_UpgradePriority ==
    [][\A u \in Users :
          UpgradePending(u) \/ (HoldsWrite(u) /\ op[u] = "UPGRADE") =>
              \A t \in Users \ {u} : ~AdmittedNow(t)]_vars

\* A writer and then a reader queued while the may-writer held the lock;
\* the may-writer then called UpgradeLock and waited, and it now holds the
\* lock in write mode while the two still wait.
C15_Witness ==
    \E u, w, r \in Users :
        /\ HoldsWrite(u) /\ op[u] = "UPGRADE"
        /\ op[w] = "WRITE" /\ Waiting(w)
        /\ op[r] = "READ" /\ Waiting(r)
        /\ \E i \in 1..Len(arrival) :
              /\ IsCall(i, u, "Upgrade") /\ arrival[i].waited
              /\ Place(u) < Place(w) /\ Place(w) < Place(r) /\ Place(r) < i

\* C16: reader coalescing.  No LockWrite caller is admitted while a reader
\* that came before it still waits; so readers that queued behind a
\* writer are all admitted before a writer that called LockWrite later.
C16_ReadersBeforeLaterWriter ==
    [][\A t \in Users :
          op[t] = "WRITE" /\ AdmittedNow(t) =>
              \A r \in Users :
                  op[r] = "READ" /\ ArrivedBefore(r, t) => ~Waiting(r)]_vars

\* W held the lock, R1, R2 and R3 queued behind it, W2 called LockWrite
\* after them, and W2 now holds the lock.
C16_Witness ==
    /\ Len(arrival) = LockThreads
    /\ op[arrival[1].thread] = "WRITE" /\ ~arrival[1].waited
    /\ \A i \in 2..4 : op[arrival[i].thread] = "READ" /\ arrival[i].waited
    /\ op[arrival[LockThreads].thread] = "WRITE"
    /\ arrival[LockThreads].waited
    /\ HoldsWrite(arrival[LockThreads].thread)

\* The loop condition of the wait a blocked thread is in lets it go on.
LoopLetsGo(t) ==
    LockOutcome(t, LockNode,
                IF pc[t] = "upgrade" THEN "UPGRADE"
                ELSE Operation(op[t])).granted

NoLostWakeup ==
    \A t \in Users : Blocked(t) /\ LoopLetsGo(t) => notified[t]

\* C17: with waits that wake on a notification only and holders that
\* release, no wake-up is lost (a blocked thread whose loop condition
\* lets it go on has been notified) and every thread blocked in LockRead,
\* LockMayWrite, LockWrite or UpgradeLock is eventually admitted.
C17_NoLostWakeup ==
    /\ []NoLostWakeup
    /\ \A t \in 1..FairLockThreads : Blocked(t) ~> ~Blocked(t)

\* All have released, after a reader, a writer and one more thread waited.
C17_Witness ==
    /\ \A t \in Users : pc[t] = "done"
    /\ Cardinality({i \in 1..Len(arrival) : arrival[i].waited}) >= 3
    /\ \E i, j \in 1..Len(arrival) :
          /\ arrival[i].waited /\ op[arrival[i].thread] = "READ"
          /\ arrival[j].waited /\ op[arrival[j].thread] = "WRITE"

WriteHeld(t) ==
    CASE pc[t] \in {"INS_up2", "DEL_up2"} -> {prev[t]}
      [] pc[t] \in {"INS_w1", "INS_w2"} -> {prev[t], next[t]}
      [] pc[t] \in {"INS_rel2", "DEL_rel3"} -> {next[t]}
      [] pc[t] = "DEL_lw" -> {prev[t], del[t]}
      [] pc[t] \in {"DEL_w1", "DEL_w2", "DEL_w3"} ->
             {prev[t], del[t], next[t]}
      [] pc[t] = "DEL_rel2" -> {del[t], next[t]}
      [] OTHER -> {}

Held(t) == SharedHeld(t) \cup WriteHeld(t)

\* The node on which t's call is in (or about to call) LockRead,
\* LockMayWrite or LockWrite; Null when it is elsewhere.
Requested(t) ==
    CASE pc[t] \in {"IH_lock", "D_lock"} -> head
      [] pc[t] = "S_lock" -> IF nullOut[t] THEN Null ELSE head
      [] pc[t] = "IT_lockTail" -> tail
      [] pc[t] = "IT_lockPrev" -> prev[t]
      [] pc[t] \in {"FK_lock", "S_lockNext", "DEL_lw"} -> next[t]
      [] OTHER -> Null

\* The place of node n on the chain from head, 0 when it is not on it.
ChainPlace(n) ==
    IF \E i \in 1..Len(NextWalk) : NextWalk[i] = n
    THEN CHOOSE i \in 1..Len(NextWalk) : NextWalk[i] = n
    ELSE 0

\* The locks' fields agree with the two tables above.
HoldersMatchLocks ==
    \A n \in Nodes :
        /\ lock[n].readersNumber =
               Cardinality({t \in Threads : n \in SharedHeld(t)})
        /\ lock[n].isWriterHolding <=> \E t \in Threads : n \in WriteHeld(t)

\* C21: node locks are asked for in forward list order.  A call in
\* LockRead, LockMayWrite or LockWrite on a node holds only nodes that lie
\* strictly before that node on the chain; a Search holds at most one
\* node lock, and neither a Search nor the backward walk of InsertTail is
\* in a lock call while it holds a node lock.
C21_ForwardLockOrder ==
    /\ HoldersMatchLocks
    /\ \A t \in Threads :
          /\ Requested(t) # Null =>
                \A h \in Held(t) :
                    /\ ChainPlace(h) > 0
                    /\ ChainPlace(h) < ChainPlace(Requested(t))
          /\ op[t] = "Search" =>
                /\ Cardinality(Held(t)) <= 1
                /\ Requested(t) # Null => Held(t) = {}
          /\ pc[t] \in {"IT_lockTail", "IT_lockPrev"} => Held(t) = {}

\* A Delete waits in LockWrite for the node after its victim, holding two
\* nodes, while an InsertTail waits in its backward walk.
C21_Witness ==
    \E t, u \in Threads :
        /\ pc[t] = "DEL_lw" /\ Blocked(t)
        /\ pc[u] = "IT_lockPrev" /\ Blocked(u)

\* C22: the backward walk of InsertTail holds at most one node lock at a
\* time, never has a null prev and never has tail as prev, does not stop
\* at a node that has been unlinked, and every position it hands to
\* InsertFromPosition is held in may-write mode, is active, is not tail,
\* and is head or has a key below the key of the call.
C22_BackwardWalk ==
    /\ HoldersMatchLocks
    /\ \A t \in Threads :
          op[t] = "InsertTail" =>
            /\ pc[t] \in {"IT_lockTail", "IT_relTail", "IT_lockPrev",
                           "IT_back", "IT_dup"} =>
                  Cardinality(Held(t)) <= 1
            /\ pc[t] \in {"IT_lockPrev", "IT_back", "IT_dup"} =>
                  prev[t] \notin {Null, tail}
            /\ pc[t] = "IT_back" => prevPtr[prev[t]] \notin {Null, tail}
            /\ pc[t] = "IT_dup" =>
                  isNodeActive[prev[t]] /\ key[prev[t]] = opKey[t]
            /\ pc[t] \in {"FK_lock", "FK_adv"} =>
                  /\ lock[prev[t]].mayWriterThreadId = t
                  /\ isNodeActive[prev[t]]
                  /\ prev[t] \notin {Null, tail}
                  /\ prev[t] = head \/ key[prev[t]] < opKey[t]

\* An InsertTail has been handed a stored node as position, the node
\* before one that a Delete has unlinked and that the walk had to pass.
C22_Witness ==
    \E t \in Threads : \E n \in 3..nalloc :
        /\ op[t] = "InsertTail" /\ pc[t] = "FK_lock"
        /\ prev[t] # head /\ lock[prev[t]].mayWriterThreadId = t
        /\ ~isNodeActive[n] /\ prevPtr[n] = prev[t]
        /\ key[n] <= opKey[t]
        /\ \E u \in Threads : op[u] = "Delete" /\ del[u] = n

\* The nodes whose prevPtr, nextPtr or isNodeActive the step of t's call
\* reads: FieldsRead before it releases or writes anything,
\* FieldsReadOnReturn right after the lock call of the step has returned.
FieldsRead(t) ==
    CASE pc[t] \in {"FK_adv", "IT_relTail", "S_adv", "S_fin"} -> {next[t]}
      [] pc[t] \in {"IT_back", "INS_w2"} -> {prev[t]}
      [] OTHER -> {}

FieldsReadOnReturn(t) ==
    CASE pc[t] \in {"IH_lock", "D_lock"} -> {head}
      [] pc[t] = "IT_lockPrev" -> {prev[t]}
      [] pc[t] = "DEL_up2" -> {next[t]}
      [] OTHER -> {}

\* This step changes prevPtr, nextPtr or isNodeActive of node n.
FieldWritten(n) ==
    \/ prevPtr'[n] # prevPtr[n]
    \/ nextPtr'[n] # nextPtr[n]
    \/ isNodeActive'[n] # isNodeActive[n]

\* In this state thread t holds node n and nobody else holds it in write
\* mode.
ReadGuarded(t, n) ==
    /\ n \in Held(t)
    /\ lock[n].readersNumber > 0 \/ lock[n].isWriterHolding
    /\ \A u \in Threads \ {t} : n \notin WriteHeld(u)

\* C23: a node's lock guards its prevPtr, nextPtr and isNodeActive.  Every
\* write to one of them in a constructed node is made by a thread that
\* holds the node in write mode, and every read of one of them is made by
\* a thread that holds the node, so never while another thread holds it in
\* write mode.
C23_FieldsGuarded ==
    /\ []HoldersMatchLocks
    /\ [][\A t \in Threads : pc'[t] # pc[t] =>
             /\ \A n \in FieldsRead(t) : ReadGuarded(t, n)
             /\ \A n \in FieldsReadOnReturn(t) : ReadGuarded(t, n)'
             /\ \A n \in 1..nalloc : FieldWritten(n) =>
                   /\ n \in WriteHeld(t)
                   /\ lock[n].isWriterHolding
                   /\ \A u \in Threads \ {t} : n \notin Held(u)]_vars

\* An insert has written prev->nextPtr under its write lock while another
\* call waits for that node.
C23_Witness ==
    \E t, u \in Threads :
        /\ pc[t] = "INS_w2" /\ prev[t] # head
        /\ nextPtr[prev[t]] = nalloc
        /\ u # t /\ Blocked(u) /\ Requested(u) = prev[t]

\* C24: isNodeActive only ever goes from true to false, and only in the
\* Delete that has unlinked the node and holds it and both its former
\* neighbours in write mode; head and tail are active and are the two
\* ends of the chain in every state.
C24_ActiveMonotone ==
    /\ [](/\ isNodeActive[head] /\ isNodeActive[tail]
          /\ Len(NextWalk) >= 2
          /\ NextWalk[1] = head /\ Last(NextWalk) = tail
          /\ \A t \in Threads : del[t] \notin {head, tail})
    /\ [][\A n \in 1..nalloc :
             /\ ~isNodeActive[n] => ~isNodeActive'[n]
             /\ isNodeActive[n] /\ ~isNodeActive'[n] =>
                   \E t \in Threads :
                       /\ op[t] = "Delete" /\ pc[t] = "DEL_w3" /\ del[t] = n
                       /\ WriteHeld(t) = {prev[t], n, next[t]}
                       /\ \A h \in WriteHeld(t) : lock[h].isWriterHolding
                       /\ prevPtr[n] = prev[t] /\ nextPtr[n] = next[t]
                       /\ nextPtr[prev[t]] = next[t]
                       /\ prevPtr[next[t]] = prev[t]
                       /\ n \notin OnChain]_vars

\* A Delete has made its victim inactive, between head and tail, and an
\* insert has since put a new node in its place.
C24_Witness ==
    \E t \in Threads : \E n \in 3..nalloc :
        /\ op[t] = "Delete" /\ result[t] /\ del[t] # Null
        /\ ~isNodeActive[del[t]]
        /\ prevPtr[del[t]] = head /\ nextPtr[del[t]] = tail
        /\ isNodeActive[n] /\ n \in OnChain /\ key[n] = key[del[t]]

\* C25: callers never see the sentinels' key and value.  Run alone on a
\* chain with no node of key SentinelKey, Search of that key returns false
\* and writes nothing, Delete of it returns false and leaves the chain as
\* it was, and InsertHead and InsertTail of it return true and add the
\* entry.  For every key, below SentinelKey or above, a successful insert
\* run alone leaves the entries sorted with the new node between head and
\* tail, and a Search run alone right after it finds the value.  Under
\* any interleaving a Search that returns true wrote a caller's value.
C25_SentinelsUnseen ==
    \A t \in Threads :
        /\ Alone(t) /\ opKey[t] = SentinelKey
              /\ ~HasKey(snap[t], SentinelKey) =>
                /\ op[t] = "Search" =>
                      ~result[t] /\ outData[t] = Unwritten
                /\ op[t] = "Delete" =>
                      ~result[t] /\ ChainEntries = snap[t]
                /\ op[t] \in Inserts =>
                      /\ result[t]
                      /\ ChainEntries =
                             With(snap[t], SentinelKey, opData[t])
        /\ Alone(t) /\ op[t] \in Inserts /\ result[t] =>
              /\ KeysStrictlyIncreasing(ChainEntries)
              /\ HasKey(ChainEntries, opKey[t])
              /\ Lookup(ChainEntries, opKey[t]) = opData[t]
              /\ NextWalk[1] = head /\ Last(NextWalk) = tail
              /\ Len(NextWalk) = Len(snap[t]) + 3
        /\ /\ Alone(t) /\ op[t] = "Search" /\ after[t] # <<>>
           /\ after[t][1] \in Inserts /\ after[t][2] = opKey[t]
           /\ after[t][4]
           => result[t] /\ outData[t] = after[t][3]
        /\ Returned(t) /\ op[t] = "Search" /\ result[t] =>
              outData[t] \in Datas

\* On a chain with a key below and a key above SentinelKey, a Search of
\* SentinelKey run alone returned false, and an insert of it run alone
\* right after returned true.
C25_Witness ==
    \E t \in Threads :
        /\ Alone(t) /\ op[t] \in Inserts /\ opKey[t] = SentinelKey
        /\ result[t] /\ Len(snap[t]) = 2 /\ ~HasKey(snap[t], SentinelKey)
        /\ after[t] # <<>> /\ after[t][1] = "Search"
        /\ after[t][2] = SentinelKey /\ ~after[t][4]

\* C26: calls that do not succeed change nothing.  Every step that
\* changes a node field or constructs a node is a step of an InsertHead,
\* InsertTail or Delete whose result is true and stays true; the key and
\* the value of a constructed node never change; and a Search, or a call
\* that returned false, run alone leaves the entries as they were.
C26_FailuresChangeNothing ==
    /\ [][\A t \in Threads :
             /\ pc'[t] # pc[t] /\ nodeVars' # nodeVars =>
                   /\ op[t] \in Inserts \cup {"Delete"}
                   /\ result[t] /\ result'[t]
             /\ op[t] # "Search" /\ result[t] => result'[t]]_vars
    /\ [][\A n \in 1..nalloc :
             key'[n] = key[n] /\ data'[n] = data[n]]_vars
    /\ [](\A t \in Threads :
             Alone(t) /\ (op[t] = "Search" \/ ~result[t]) =>
                 ChainEntries = snap[t])

\* InsertHead put a key with one value, run alone; InsertTail of the same
\* key with another value, run alone right after, returned false, and the
\* first value is still the one stored.
C26_Witness ==
    \E t \in Threads :
        /\ Alone(t) /\ op[t] = "InsertTail" /\ ~result[t]
        /\ after[t] # <<>> /\ after[t][1] = "InsertHead" /\ after[t][4]
        /\ after[t][2] = opKey[t] /\ after[t][3] # opData[t]
        /\ Lookup(ChainEntries, opKey[t]) = after[t][3]

\* The nodes t holds in read mode and in may-write mode: a Search and the
\* first lock of InsertTail (on tail) use LockRead, every other shared
\* hold is by LockMayWrite.
ReadHeld(t) ==
    IF op[t] = "Search" \/ pc[t] = "IT_relTail" THEN SharedHeld(t) ELSE {}
MayWriteHeld(t) == SharedHeld(t) \ ReadHeld(t)

\* This step is a ReleaseSharedLock or an UpgradeLock call by the thread
\* that holds node n in may-write mode.
MayWriterLetsGo(t, n) ==
    /\ n \in MayWriteHeld(t)
    /\ n \notin MayWriteHeld(t)'

\* C27: the lock's fields match its holders.  readersNumber is the number
\* of threads that hold the lock in read mode, plus one when a thread
\* holds it in may-write mode; mayWriterThreadId is that thread, and no
\* thread when there is none; every ReleaseSharedLock by the may-writer
\* (those of InsertTail's backward walk too) and every UpgradeLock clears
\* it.
C27_FieldsMatchHolders ==
    /\ [](\A n \in Nodes :
            LET mw == {t \in Threads : n \in MayWriteHeld(t)}
                rd == {t \in Threads : n \in ReadHeld(t)}
            IN  /\ Cardinality(mw) <= 1
                /\ lock[n].readersNumber = Cardinality(rd) + Cardinality(mw)
                /\ \A t \in Threads : lock[n].mayWriterThreadId = t <=> t \in mw
                /\ lock[n].mayWriterThreadId = NoThread <=> mw = {})
    /\ [][\A t \in Threads : \A n \in 1..nalloc :
             MayWriterLetsGo(t, n) =>
                 /\ lock[n].mayWriterThreadId = t
                 /\ lock'[n].mayWriterThreadId = NoThread
                 /\ lock'[n].readersNumber = lock[n].readersNumber - 1]_vars

\* The backward walk of InsertTail has let go of a stored node that a
\* Search holds in read mode.
C27_Witness ==
    \E t, u \in Threads :
        /\ op[t] = "InsertTail" /\ pc[t] = "IT_lockPrev"
        /\ next[t] \notin {Null, tail}
        /\ lock[next[t]].mayWriterThreadId = NoThread
        /\ op[u] = "Search" /\ next[t] \in ReadHeld(u)
        /\ lock[next[t]].readersNumber = 1

(***************************************************************************)
(* One lock alone: the queue                                               *)
(***************************************************************************)
Queue == lock[LockNode].threadQueue

\* This step is thread t's call of LockRead, LockMayWrite or LockWrite.
Arrives(t) == pc[t] = "acquire" /\ ~Blocked(t) /\ arrival' # arrival
                 /\ Last(arrival').thread = t

\* The call finds a queue that is not empty and has a READ tuple at its
\* back.
ReadTupleAtBack == Queue # <<>> /\ Last(Queue).operation = "READ"

\* The caller joins the tuple at the back and waits on its condition.
Coalesces(t) ==
    /\ Queue' = [Queue EXCEPT ![Len(Queue)].counter = @ + 1]
    /\ cvWait'[t] = Last(Queue).cv

\* The caller pushes a tuple of its own, with counter 1 and a condition
\* no tuple had, and waits on it.
PushesOwnTuple(t) ==
    /\ Len(Queue') = Len(Queue) + 1
    /\ SubSeq(Queue', 1, Len(Queue)) = Queue
    /\ Last(Queue').operation = Operation(op[t])
    /\ Last(Queue').counter = 1
    /\ Last(Queue').cv = cvWait'[t]
    /\ \A i \in 1..Len(Queue) : Queue[i].cv # cvWait'[t]

C29_WokenNeverWaitsAgain ==
    [][\A t \in Users :
          Blocked(t) /\ notified[t] /\ ~notified'[t] => ~Blocked(t)']_vars

\* The places in the queue of the tuples that UpgradeLock put at the front:
\* those a thread in the wait of UpgradeLock waits on.
VipPlaces ==
    {i \in DOMAIN Queue :
        \E t \in Users : UpgradePending(t) /\ cvWait[t] = Queue[i].cv}

\* C30: at most one thread waits in UpgradeLock on a lock, the queue holds
\* at most one tuple put at the front by UpgradeLock, and that tuple, a
\* WRITE tuple of one thread, is the front of the queue for as long as its
\* thread waits.
C30_OneUpgradePending ==
    /\ Cardinality({t \in Users : UpgradePending(t)}) <= 1
    /\ Cardinality(VipPlaces) <= 1
    /\ \A t \in Users :
          UpgradePending(t) =>
              /\ VipPlaces = {1}
              /\ Queue[1] = [cv |-> cvWait[t], operation |-> "WRITE",
                             counter |-> 1]

\* A thread waits in UpgradeLock beside a reader, and a second thread that
\* is to upgrade waits for may-write mode behind it.
C30_Witness ==
    \E t, u \in Users :
        /\ UpgradePending(t)
        /\ lock[LockNode].readersNumber > 0
        /\ Waiting(u) /\ op[u] = "UPGRADE"
        /\ Len(Queue) >= 2

\* The node on which the next statement of t's call is ReleaseSharedLock;
\* Null when it is another statement.
SharedReleaseCall(t) ==
    CASE pc[t] \in {"FK_adv", "REL_s1", "IT_back", "IT_dup"} -> prev[t]
      [] pc[t] \in {"REL_s2", "IT_relTail", "S_adv", "S_fin"} -> next[t]
      [] OTHER -> Null

\* The node on which t's call is in (or about to call) UpgradeLock.
UpgradeCall(t) ==
    CASE pc[t] \in {"INS_up1", "DEL_up1"} -> prev[t]
      [] pc[t] \in {"INS_up2", "DEL_up2"} -> next[t]
      [] OTHER -> Null

\* The node on which the next statement of t's call is
\* ReleaseExclusiveLock.
ExclusiveReleaseCall(t) ==
    CASE pc[t] \in {"INS_w2", "DEL_w3"} -> prev[t]
      [] pc[t] \in {"INS_rel2", "DEL_rel3"} -> next[t]
      [] pc[t] = "DEL_rel2" -> del[t]
      [] OTHER -> Null

\* The mode in which t's call asks for Requested(t).
RequestedMode(t) ==
    CASE pc[t] \in {"S_lock", "S_lockNext", "IT_lockTail"} -> "READ"
      [] pc[t] \in {"IH_lock", "D_lock", "IT_lockPrev", "FK_lock"} ->
             "MAY_WRITE"
      [] pc[t] = "DEL_lw" -> "WRITE"
      [] OTHER -> "NONE"

\* C31: no assertion of the lock fires under the list.  At a call of
\* ReleaseSharedLock or UpgradeLock the lock counts a reader, and at a call
\* of UpgradeLock the caller is the recorded may-writer; at a call of
\* ReleaseExclusiveLock a writer holds; when LockMayWrite is let through
\* no may-writer is recorded, and when LockWrite or UpgradeLock is let
\* through no writer holds; a READ tuple that a reader joins, or that a
\* reader leaves, counts at least one reader.
C31_NoAssertionFires ==
    \A t \in Threads :
        /\ SharedReleaseCall(t) # Null =>
              lock[SharedReleaseCall(t)].readersNumber > 0
        /\ UpgradeCall(t) # Null /\ ~Blocked(t) =>
              /\ lock[UpgradeCall(t)].readersNumber > 0
              /\ lock[UpgradeCall(t)].mayWriterThreadId = t
        /\ UpgradeCall(t) # Null
             /\ LockOutcome(t, UpgradeCall(t), "UPGRADE").granted =>
              ~lock[UpgradeCall(t)].isWriterHolding
        /\ ExclusiveReleaseCall(t) # Null =>
              lock[ExclusiveReleaseCall(t)].isWriterHolding
        /\ Requested(t) # Null =>
              LET L == lock[Requested(t)]
                  q == L.threadQueue
                  m == RequestedMode(t)
                  s == ShouldThreadWait(L, m, FreshCv)
              IN  /\ m = "MAY_WRITE"
                       /\ LockOutcome(t, Requested(t), m).granted =>
                        L.mayWriterThreadId = NoThread
                  /\ m = "WRITE"
                       /\ LockOutcome(t, Requested(t), m).granted =>
                        ~L.isWriterHolding
                  /\ m = "READ" /\ ~Blocked(t) /\ s.wait
                       /\ Len(s.queue) = Len(q) =>
                        q[Len(q)].counter > 0
                  /\ m = "READ" /\ Blocked(t)
                       /\ WaitDone(L, m, cvWait[t]) =>
                        q[1].counter > 0

\* A Delete waits in UpgradeLock on a node that a Search, about to call
\* ReleaseSharedLock on it, still holds.
C31_Witness ==
    \E t, u \in Threads :
        /\ UpgradeCall(t) # Null /\ Blocked(t)
        /\ op[t] = "Delete" /\ op[u] = "Search"
        /\ SharedReleaseCall(u) = UpgradeCall(t)

\* C32: mutators work side by side, each on nodes of its own.  The nodes
\* two threads hold in write mode at once are never the same; a node held
\* in write mode says so in its lock and counts no reader; and a call that
\* has both nodes of its FindKey pair in write mode has them adjacent on
\* the chain.  (That two threads do hold their pairs in write mode at the
\* same time is what C32_Witness reaches.)
C32_WritersApart ==
    /\ \A t, u \in Threads :
          t # u => WriteHeld(t) \cap WriteHeld(u) = {}
    /\ \A t \in Threads :
          /\ \A n \in WriteHeld(t) :
                /\ lock[n].isWriterHolding
                /\ lock[n].readersNumber = 0
          /\ pc[t] \in {"INS_w1", "DEL_lw"} =>
                LET p == prev[t]
                    x == IF pc[t] = "INS_w1" THEN next[t] ELSE del[t]
                IN  /\ WriteHeld(t) = {p, x} /\ p # x
                    /\ nextPtr[p] = x /\ prevPtr[x] = p

\* Two inserts are both at their splice, each with its own two adjacent
\* nodes in write mode and no node in common.
C32_Witness ==
    \E t, u \in Threads :
        /\ t # u
        /\ pc[t] = "INS_w1" /\ pc[u] = "INS_w1"
        /\ {prev[t], next[t]} \cap {prev[u], next[u]} = {}
        /\ \A n \in {prev[t], next[t], prev[u], next[u]} :
              lock[n].isWriterHolding

\* C33: with no call in flight every node's lock, of a node on the chain,
\* of a sentinel or of an unlinked node, is as its constructor left it: no
\* reader, no writer, no may-writer, an empty queue.
C33_LocksFreeWhenQuiescent ==
    Quiescent =>
        \A n \in Nodes :
            /\ lock[n].readersNumber = 0
            /\ ~lock[n].isWriterHolding
            /\ lock[n].mayWriterThreadId = NoThread
            /\ lock[n].threadQueue = <<>>

\* Every call has returned: an insert and a Delete that overlapped both
\* changed the chain, a call returned false, and a node has been unlinked.
C33_Witness ==
    /\ AllReturned /\ Quiescent
    /\ \E t, u, v \in Threads :
          /\ op[t] \in Inserts /\ result[t] /\ ~solo[t]
          /\ op[u] = "Delete" /\ result[u] /\ ~solo[u]
          /\ ~result[v]
    /\ \E n \in 3..nalloc : ~isNodeActive[n]

\* The threads that wait on condition variable c.
WaitersOn(c) == {t \in Users : cvWait[t] = c}

\* C34: in the wait queue of every lock each tuple counts at least one
\* thread, a MAY_WRITE or WRITE tuple exactly one, and the count of a tuple
\* is the number of threads that wait on its condition variable; no two
\* tuples share a condition variable, every waiting thread's condition
\* variable is in a queue (a tuple goes when its last thread is let
\* through, not before), and no two READ tuples are neighbours.
C34_QueueShape ==
    /\ \A n \in DOMAIN lock :
          LET q == lock[n].threadQueue
          IN  /\ \A i \in DOMAIN q :
                    /\ q[i].counter >= 1
                    /\ q[i].operation # "READ" => q[i].counter = 1
                    /\ q[i].counter = Cardinality(WaitersOn(q[i].cv))
                    /\ \A j \in DOMAIN q : q[j].cv = q[i].cv => j = i
              /\ \A i \in 1..(Len(q) - 1) :
                    ~(q[i].operation = "READ" /\ q[i + 1].operation = "READ")
    /\ \A t \in Users :
          Blocked(t) =>
              \E n \in DOMAIN lock :
                  \E i \in DOMAIN lock[n].threadQueue :
                      lock[n].threadQueue[i].cv = cvWait[t]

\* One reader of the READ tuple at the front has been let through and
\* another still waits on it; behind it a WRITE tuple, and behind that a
\* second READ tuple.
C34_Witness ==
    /\ Len(Queue) >= 3
    /\ Queue[1].operation = "READ" /\ Queue[3].operation = "READ"
    /\ Queue[2].operation = "WRITE"
    /\ \E i \in DOMAIN arrival :
          /\ arrival[i].waited /\ arrival[i].method = "Lock"
          /\ op[arrival[i].thread] = "READ"
          /\ pc[arrival[i].thread] = "held"
    /\ WaitersOn(Queue[1].cv) # {}

====
